---- MODULE Spec2Model ----
(***************************************************************************)
(* State-machine model of CIMCBroker (src/ansible/library/cimc_conf.py).   *)
(*                                                                         *)
(* One caller invokes the broker's get_<resource> / set_<resource>         *)
(* operations one after the other, each on a fresh broker (main(), lines   *)
(* 667-671).  Every remote call of an operation is one step; a remote call *)
(* may raise.  The remote endpoint applies power commands asynchronously   *)
(* (the reason set_power polls OperPower) and configuration writes (boot   *)
(* objects, virtual-media service and mappings) when they are answered     *)
(* without error.                                                          *)
(***************************************************************************)
EXTENDS Integers, Sequences, FiniteSets, TLC

VARIABLES
    \* ---- the remote endpoint
    power,          \* OperPower of sys/rack-unit-1: "on" | "off"
    pendingCmd,     \* AdminPower command accepted and not yet applied
    bootMode,       \* ConfiguredBootMode: "Legacy" | "Precision"
    bootDefs,       \* children of the lsbootDef subtree, in response order
    vmEnabled,      \* AdminState of sys/svc-ext/vmedia-svc = "enabled"
    vmaps,          \* the CommVMediaMap objects (a set of records)
    blank,          \* how the endpoint reports a Username and a Password
                    \* that were never set: [user, pass]
    \* ---- the caller
    todo,           \* invocations the caller still makes
    prev,           \* summary of the previous invocation: what it was,
                    \* how it ended, the command pending when it began
    \* ---- the invocation in progress
    op, args, timeout, pc,
    session,        \* "none" | "live"
    changed,        \* CIMCBroker.changed
    raised,         \* exception propagating out of the with-body, or None
    outcome,        \* "none" | "ok" | "error"
    err,            \* kind of the error the invocation failed with
    ret,            \* value returned by the operation
    \* ---- locals of the operation
    left, expect_state, cimc_power_ops, current_power,
    boot_found, found, old_mapping, need_update,
    \* ---- history of the invocation (not read by the operations)
    calls,          \* remote calls submitted, in order
    loginOk,        \* login returned without raising
    collision,      \* a create was submitted for a name still present remotely
    pre,            \* remote state when the invocation started
    observed,       \* values the reads of _wait_util returned, in order
    raised_arg,     \* value the message of the exception raised carries
                    \* (the timeout's, a refused delete's)
    \* ---- a second invocation, running against the same endpoint
    other,          \* the invocation that is not at its turn: its caller's
                    \* and its own variables, as a record
    \* ---- the Proxmox cluster
    vmStatus,       \* the instance: "absent" | "running" | "stopped"
    tasks,          \* the stop and the delete task of the node:
                    \* [status, exitstatus]
    \* ---- the ProxmoxBroker invocation
    task, force,    \* module parameters
    task_timeout,   \* ProxmoxBroker.timeout
    ppc,            \* position of the invocation
    wait_timeout,   \* _wait_until_timeout: its local "timeout"
    msg,            \* _wait_until_timeout: its local "msg", or Unbound
    wait_ret,       \* what the last _wait_until_timeout returned
    stop_ret,       \* what the stop_instance called by delete_instance
                    \* returned
    pret,           \* (rc, changed, msg) the operation returned
    praised,        \* exception that left the operation, or None
    \* ---- history of the ProxmoxBroker invocation
    pcalls,         \* requests submitted, in order
    polls,          \* task status reads of the _wait_until_timeout running
    del_on          \* status of the instance when the delete was submitted

remoteVars == <<power, pendingCmd, bootMode, bootDefs, vmEnabled, vmaps, blank>>
localVars  == <<left, expect_state, cimc_power_ops, current_power,
                boot_found, found, old_mapping, need_update>>
vars == <<power, pendingCmd, bootMode, bootDefs, vmEnabled, vmaps, blank,
          todo, prev, op, args, timeout, pc, session, changed, raised,
          outcome, err, ret, left, expect_state, cimc_power_ops,
          current_power, boot_found, found, old_mapping, need_update,
          calls, loginOk, collision, pre,
          observed, raised_arg, other, vmStatus, tasks, task, force,
          task_timeout, ppc, wait_timeout, msg, wait_ret, stop_ret, pret,
          praised, pcalls, polls, del_on>>
pveVars == <<vmStatus, tasks, task, force, task_timeout, ppc, wait_timeout,
             msg, wait_ret, stop_ret, pret, praised, pcalls, polls, del_on>>

----------------------------------------------------------------------------
(* Bounds of the model *)

MaxCalls == 2          \* invocations in a row on one resource
MaxAttempts == 2       \* poll attempts the largest timeout given allows
MaxTimeout == 2        \* largest task timeout given to the ProxmoxBroker

(* Program constants *)

None == "<None>"       \* Python's None / a key missing from config

Interval == 3
DefaultTimeout == 30

CIMC_POWER_OPTIONS ==
    [on |-> "up", off |-> "down", reboot |-> "hard-reset-immediate"]

\* self.CIMC_POWER_OPTIONS.get(power_state)
PowerOption(s) ==
    IF s \in DOMAIN CIMC_POWER_OPTIONS THEN CIMC_POWER_OPTIONS[s] ELSE None

CIMC_BOOT_DEVICES_MAPPING ==
    ("vm-read-only" :> "CDROM") @@ ("vm-read-write" :> "FDD") @@
    ("lan-read-only" :> "PXE") @@ ("storage-read-write" :> "HDD") @@
    ("efi-read-only" :> "EFI")

\* BOOT_DEVICES_CIMC_ATTRS: the Rn of each device kind (the Dn is the Rn
\* under sys/rack-unit-1/boot-policy).
BOOT_DEVICES_CIMC_ATTRS ==
    [CDROM |-> "vm-read-only", FDD |-> "vm-read-write",
     PXE |-> "lan-read-only", EFI |-> "efi-read-only",
     HDD |-> "storage-read-write"]

CIMC_VMEDIA_MAP_OPTIONS ==
    [www |-> "noauto", nfs |-> "nolock", cifs |-> "", unmap |-> ""]

----------------------------------------------------------------------------
(* Inputs *)

PowerRequests == {"on", "off", "reboot", "cycle", None}
Timeouts == (-1) .. (Interval * MaxAttempts + 1)
DeviceRequests == {"CDROM", "FDD", "PXE", "EFI", "HDD", "USB"}
OrderRequests == (-1) .. 6
NameRequests == {"iso1", "iso2", None}
FileRequests == {"x.iso", "y.iso"}
ShareRequests == {"http://h/"}
MapRequests == {"www", "nfs", "cifs", "unmap", "ftp", None}
UserRequests == {None, "admin"}
PasswordRequests == {"", "secret"}
MountOptionRequests == {None, "ro"}

NoArgs ==
    [power_state |-> None, device |-> None, order |-> 0, name |-> None,
     remote_file |-> None, remote_share |-> None, map |-> None,
     user |-> None, password |-> "", mount_options |-> None]

NoMapping ==
    [dn |-> None, name |-> None, file |-> None, share |-> None, map |-> None,
     opts |-> <<>>, user |-> None, pass |-> None]

NoRet == [kind |-> "None", power_state |-> None, list |-> <<>>,
          enabled |-> FALSE, mappings |-> {}]

NoPrev == [op |-> None, args |-> NoArgs, outcome |-> "none",
           changed |-> FALSE, pending |-> None]

Snapshot ==
    [power |-> power, pendingCmd |-> pendingCmd, bootMode |-> bootMode,
     bootDefs |-> bootDefs, vmEnabled |-> vmEnabled, vmaps |-> vmaps]

----------------------------------------------------------------------------
(* Helpers *)

Truthy(x) == x /= None /\ x /= ""

\* CIMCBroker.__init__: self._wait_retry = timeout / self._interval
\* (Python 2 integer division, which rounds towards minus infinity).
WaitRetryAtLeastOnce(t) == IF t \div Interval < 1 THEN 1 ELSE t \div Interval
WaitRetry(t) == t \div Interval

\* The argument checks each operation makes before it opens a session:
\* the kind of the error raised, or None.
ValidateWithoutMapKind(o, a) ==
    CASE o = "set_power" ->
           IF a.power_state \notin {"on", "off", "reboot"}
           THEN "InvalidArgument" ELSE None
      [] o = "set_boot_device" ->
           IF a.device \notin DOMAIN BOOT_DEVICES_CIMC_ATTRS
           THEN "InvalidArgument"
           ELSE IF a.order < 0 \/ a.order > 5
                THEN "InvalidArgument" ELSE None
      [] o = "set_net_adaptors" -> "UnsupportedOperation"
      [] o = "set_vmedias" ->
           IF a.map = "unmap" /\ ~Truthy(a.name)
           THEN "InvalidArgument" ELSE None
      [] OTHER -> None
ValidateWithoutUnmapName(o, a) ==
    CASE o = "set_power" ->
           IF a.power_state \notin {"on", "off", "reboot"}
           THEN "InvalidArgument" ELSE None
      [] o = "set_boot_device" ->
           IF a.device \notin DOMAIN BOOT_DEVICES_CIMC_ATTRS
           THEN "InvalidArgument"
           ELSE IF a.order < 0 \/ a.order > 5
                THEN "InvalidArgument" ELSE None
      [] o = "set_net_adaptors" -> "UnsupportedOperation"
      [] o = "set_vmedias" ->
           IF a.map \notin DOMAIN CIMC_VMEDIA_MAP_OPTIONS
           THEN "InvalidArgument" ELSE None
      [] OTHER -> None
ValidateAcceptsNetAdaptors(o, a) ==
    CASE o = "set_power" ->
           IF a.power_state \notin {"on", "off", "reboot"}
           THEN "InvalidArgument" ELSE None
      [] o = "set_boot_device" ->
           IF a.device \notin DOMAIN BOOT_DEVICES_CIMC_ATTRS
           THEN "InvalidArgument"
           ELSE IF a.order < 0 \/ a.order > 5
                THEN "InvalidArgument" ELSE None
      [] o = "set_vmedias" ->
           IF a.map \notin DOMAIN CIMC_VMEDIA_MAP_OPTIONS
           THEN "InvalidArgument"
           ELSE IF a.map = "unmap" /\ ~Truthy(a.name)
                THEN "InvalidArgument"
                ELSE IF a.map /= "unmap"
                        /\ ~(Truthy(a.name) \/ Truthy(a.remote_file)
                             \/ Truthy(a.remote_share) \/ Truthy(a.map))
                     THEN "InvalidArgument" ELSE None
      [] OTHER -> None
ValidateWithoutPowerState(o, a) ==
    CASE o = "set_boot_device" ->
           IF a.device \notin DOMAIN BOOT_DEVICES_CIMC_ATTRS
           THEN "InvalidArgument"
           ELSE IF a.order < 0 \/ a.order > 5
                THEN "InvalidArgument" ELSE None
      [] o = "set_net_adaptors" -> "UnsupportedOperation"
      [] o = "set_vmedias" ->
           IF a.map \notin DOMAIN CIMC_VMEDIA_MAP_OPTIONS
           THEN "InvalidArgument"
           ELSE IF a.map = "unmap" /\ ~Truthy(a.name)
                THEN "InvalidArgument"
                ELSE IF a.map /= "unmap"
                        /\ ~(Truthy(a.name) \/ Truthy(a.remote_file)
                             \/ Truthy(a.remote_share) \/ Truthy(a.map))
                     THEN "InvalidArgument" ELSE None
      [] OTHER -> None
Validate(o, a) ==
    CASE o = "set_power" ->
           IF a.power_state \notin {"on", "off", "reboot"}
           THEN "InvalidArgument" ELSE None
      [] o = "set_boot_device" ->
           IF a.device \notin DOMAIN BOOT_DEVICES_CIMC_ATTRS
           THEN "InvalidArgument"
           ELSE IF a.order < 0 \/ a.order > 5
                THEN "InvalidArgument" ELSE None
      [] o = "set_net_adaptors" -> "UnsupportedOperation"
      [] o = "set_vmedias" ->
           IF a.map \notin DOMAIN CIMC_VMEDIA_MAP_OPTIONS
           THEN "InvalidArgument"
           ELSE IF a.map = "unmap" /\ ~Truthy(a.name)
                THEN "InvalidArgument"
                ELSE IF a.map /= "unmap"
                        /\ ~(Truthy(a.name) \/ Truthy(a.remote_file)
                             \/ Truthy(a.remote_share) \/ Truthy(a.map))
                     THEN "InvalidArgument" ELSE None
      [] OTHER -> None

\* The first step of each operation's with-body.
FirstStep(o) ==
    CASE o = "get_power" -> "gp_read"
      [] o = "set_power" -> "sp_read"
      [] o = "get_boot_device" -> "gb_list"
      [] o = "set_boot_device" -> "sb_mode"
      [] o = "get_net_adaptors" -> "gn_read"
      [] o = "get_vmedias" -> "gv_enabled"
      [] o = "set_vmedias" -> "sv_enabled"

Submit(c) == calls' = Append(calls, c)

Count(seq, c) == Cardinality({i \in DOMAIN seq : seq[i] = c})

CountIn(seq, S) == Cardinality({i \in DOMAIN seq : seq[i] \in S})

\* The calls that submit a change to the endpoint.
PowerWrites == {"power:up", "power:down", "power:hard-reset-immediate"}
BootWrites == {"write:boot_update", "write:boot_create"}
VmediaWrites ==
    {"write:vmedia_enable", "write:vmedia_delete", "write:vmedia_create"}

----------------------------------------------------------------------------
(* The session: _cimc_handle, a context manager around every with-body *)

\* An exception leaves the with-body: the generator is resumed at its yield
\* with the exception and the finally clause runs.
RaiseNoFinally(e) == raised' = e /\ pc' = "done"
Raise(e) == raised' = e /\ pc' = "logout"

\* The with-body ends (falls off its end or returns): the finally clause runs.
Leave == raised' = raised /\ pc' = "logout"

\* An operation is invoked on a fresh broker: arguments are checked, and the
\* operation either fails there or goes on to open its session.
Invoke(o, a, t) ==
    /\ pc \in {"idle", "done"}
    /\ todo > 0
    /\ todo' = todo - 1
    /\ prev' = IF pc = "idle" THEN NoPrev
               ELSE [op |-> op, args |-> args, outcome |-> outcome,
                     changed |-> changed, pending |-> pre.pendingCmd]
    /\ op' = o /\ args' = a /\ timeout' = t
    /\ changed' = FALSE /\ raised' = None /\ ret' = NoRet
    /\ calls' = <<>> /\ loginOk' = FALSE /\ collision' = FALSE
    /\ pre' = Snapshot /\ observed' = <<>> /\ raised_arg' = None
    /\ left' = 0 /\ expect_state' = None /\ current_power' = None
    /\ cimc_power_ops' = IF o = "set_power" /\ Validate(o, a) = None
                         THEN PowerOption(a.power_state) ELSE None
    /\ boot_found' = FALSE /\ found' = FALSE /\ old_mapping' = NoMapping
    /\ need_update' = FALSE
    /\ IF Validate(o, a) /= None
       THEN pc' = "done" /\ outcome' = "error" /\ err' = Validate(o, a)
       ELSE pc' = "login" /\ outcome' = "none" /\ err' = None
    /\ UNCHANGED <<remoteVars, session,
                   other, pveVars>>

\* handle.login(...) inside the try block.
LoginSwallowsFailure ==
    /\ pc = "login"
    /\ Submit("login")
    /\ \E ok \in BOOLEAN :
         /\ session' = IF ok THEN "live" ELSE session
         /\ loginOk' = (ok \/ loginOk)
         /\ pc' = FirstStep(op) /\ raised' = raised
    /\ UNCHANGED <<remoteVars, localVars, todo, prev, op, args, timeout,
                   changed, outcome, err, ret, collision, pre,
                   observed, raised_arg,
                   other, pveVars>>
Login ==
    /\ pc = "login"
    /\ Submit("login")
    /\ \E ok \in BOOLEAN :
         IF ok
         THEN /\ session' = "live" /\ loginOk' = TRUE
              /\ pc' = FirstStep(op) /\ raised' = raised
         ELSE /\ session' = session /\ loginOk' = loginOk
              /\ Raise("AuthenticationFailure")
    /\ UNCHANGED <<remoteVars, localVars, todo, prev, op, args, timeout,
                   changed, outcome, err, ret, collision, pre,
                   observed, raised_arg,
                   other, pveVars>>

\* finally: handle.logout().  An exception raised by logout replaces the
\* with-body's result or exception.
Logout ==
    /\ pc = "logout"
    /\ Submit("logout")
    /\ session' = "none"
    /\ pc' = "done"
    /\ \E ok \in BOOLEAN :
         IF ~ok
         THEN outcome' = "error" /\ err' = "LogoutFailure"
         ELSE IF raised /= None
              THEN outcome' = "error" /\ err' = raised
              ELSE outcome' = "ok" /\ err' = None
    /\ UNCHANGED <<remoteVars, localVars, todo, prev, op, args, timeout,
                   changed, raised, ret, loginOk, collision, pre,
                   observed, raised_arg,
                   other, pveVars>>

----------------------------------------------------------------------------
(* Power: get_power, set_power, _get_power_state, _wait_util *)

PowerRet(s) == [NoRet EXCEPT !.kind = "power", !.power_state = s]

\* set_power: "if current_power == power_state: return"
AlreadyInStateNever(cur, req) == FALSE
AlreadyInState(cur, req) == cur = req

\* set_power: the command looked up for the request, replaced by the
\* power-up command for a reboot of a unit that is off.
PowerOpsUntranslated(req, cur) == CIMC_POWER_OPTIONS[req]
PowerOps(req, cur) ==
    IF req = "reboot" /\ cur = "off"
    THEN CIMC_POWER_OPTIONS["on"]
    ELSE CIMC_POWER_OPTIONS[req]

\* set_power: expect_state = power_state if power_state != 'reboot' else 'on'
ExpectState(req) == IF req /= "reboot" THEN req ELSE "on"

\* _wait_util: "while left > 0"
BudgetLeftOffByOne(l) == l >= 0
BudgetLeft(l) == l > 0

\* _wait_util: "left = left - 1"
CountdownStuck(l) == l
Countdown(l) == l - 1

\* _wait_util: "if func(*args, **kwargs) == expect: return"
PollMatchNever(v, e) == FALSE
PollMatch(v, e) == v = e

GetPowerRead ==
    /\ pc = "gp_read"
    /\ Submit("read:power")
    /\ \E ok \in BOOLEAN :
         IF ok
         THEN ret' = PowerRet(power) /\ Leave
         ELSE ret' = ret /\ Raise("RemoteError")
    /\ UNCHANGED <<remoteVars, localVars, todo, prev, op, args, timeout,
                   session, changed, outcome, err, loginOk, collision, pre,
                   observed, raised_arg,
                   other, pveVars>>

SetPowerRead ==
    /\ pc = "sp_read"
    /\ Submit("read:power")
    /\ \E ok \in BOOLEAN :
         IF ok
         THEN /\ current_power' = power
              /\ IF AlreadyInState(power, args.power_state)
                 THEN Leave /\ cimc_power_ops' = cimc_power_ops
                 ELSE /\ cimc_power_ops' = PowerOps(args.power_state, power)
                      /\ pc' = "sp_write" /\ raised' = raised
         ELSE /\ current_power' = current_power
              /\ cimc_power_ops' = cimc_power_ops
              /\ Raise("RemoteError")
    /\ UNCHANGED <<remoteVars, left, expect_state, boot_found, found,
                   old_mapping, need_update, todo, prev, op, args, timeout,
                   session, changed, outcome, err, ret, loginOk, collision,
                   pre,
                   observed, raised_arg,
                   other, pveVars>>

SetPowerWrite ==
    /\ pc = "sp_write"
    /\ Submit("power:" \o cimc_power_ops)
    /\ \E ok \in BOOLEAN :
         IF ok
         THEN /\ pendingCmd' = cimc_power_ops
              /\ expect_state' = ExpectState(args.power_state)
              /\ left' = WaitRetry(timeout)
              /\ pc' = "sp_poll" /\ raised' = raised
         ELSE /\ pendingCmd' = pendingCmd
              /\ expect_state' = expect_state /\ left' = left
              /\ Raise("RemoteError")
    /\ UNCHANGED <<power, bootMode, bootDefs, vmEnabled, vmaps, blank,
                   cimc_power_ops, current_power, boot_found, found,
                   old_mapping, need_update, todo, prev, op, args, timeout,
                   session, changed, outcome, err, ret, loginOk, collision,
                   pre,
                   observed, raised_arg,
                   other, pveVars>>

\* _wait_util: the argument of the message of the exception raised after
\* the loop, "Timeout waiting for state change to %s" % expect.
TimeoutArgLast(expect, last) == last
TimeoutArg(expect, last) == expect

\* One turn of the loop of _wait_util, or the raise after it.
SetPowerPollSkipped ==
    /\ pc = "sp_poll"
    /\ changed' = TRUE
    /\ ret' = PowerRet(expect_state)
    /\ Leave
    /\ UNCHANGED <<remoteVars, localVars, todo, prev, op, args, timeout,
                   session, outcome, err, calls, loginOk, collision, pre,
                   observed, raised_arg,
                   other, pveVars>>
SetPowerPoll ==
    /\ pc = "sp_poll"
    /\ IF BudgetLeft(left)
       THEN /\ Submit("poll:power")
            /\ raised_arg' = raised_arg
            /\ \E ok \in BOOLEAN :
                 IF ok
                 THEN /\ observed' = Append(observed, power)
                      /\ IF PollMatch(power, expect_state)
                         THEN /\ changed' = TRUE
                              /\ ret' = PowerRet(expect_state)
                              /\ left' = left
                              /\ Leave
                         ELSE /\ left' = Countdown(left)
                              /\ pc' = pc /\ raised' = raised
                              /\ changed' = changed /\ ret' = ret
                 ELSE /\ observed' = observed
                      /\ left' = left /\ changed' = changed /\ ret' = ret
                      /\ Raise("RemoteError")
       ELSE /\ calls' = calls /\ observed' = observed
            /\ left' = left /\ changed' = changed /\ ret' = ret
            /\ raised_arg' =
                  TimeoutArg(expect_state,
                             IF observed = <<>> THEN None
                             ELSE observed[Len(observed)])
            /\ Raise("ConvergenceTimeout")
    /\ UNCHANGED <<remoteVars, expect_state, cimc_power_ops, current_power,
                   boot_found, found, old_mapping, need_update, todo, prev,
                   op, args, timeout, session, outcome, err, loginOk,
                   collision, pre,
                   other, pveVars>>

\* The endpoint carries out an accepted power command some time after it
\* accepted it.  A hard reset of a running unit either takes it through
\* "off" and boots it again, or is over before OperPower shows it.
RemoteApply ==
    /\ pendingCmd /= None
    /\ \/ /\ pendingCmd = "up"
          /\ power' = "on" /\ pendingCmd' = None
       \/ /\ pendingCmd = "down"
          /\ power' = "off" /\ pendingCmd' = None
       \/ /\ pendingCmd = "hard-reset-immediate"
          /\ power = "on"
          /\ power' = "off" /\ pendingCmd' = "up"
       \/ /\ pendingCmd = "hard-reset-immediate"
          /\ power' = power /\ pendingCmd' = None
    /\ UNCHANGED <<bootMode, bootDefs, vmEnabled, vmaps, blank, localVars,
                   todo, prev, op, args, timeout, pc, session, changed,
                   raised, outcome, err, ret, calls, loginOk, collision, pre,
                   observed, raised_arg,
                   other, pveVars>>

GetPower == Invoke("get_power", NoArgs, DefaultTimeout)

SetPower ==
    \E s \in PowerRequests, t \in Timeouts :
        Invoke("set_power", [NoArgs EXCEPT !.power_state = s], t)

----------------------------------------------------------------------------
(* Boot order: _get_bios_mode, _get_boot_devices, get_boot_device,
   set_boot_device *)

\* The BiosBootDevPrecision objects of the endpoint, as reported.
PrecisionDevices ==
    << [slot |-> "L", device |-> "pxe0", type |-> "PXE", order |-> "1",
        description |-> ""],
       [slot |-> "", device |-> "hdd0", type |-> "HDD", order |-> "2",
        description |-> ""] >>

\* _get_boot_devices, Legacy branch, the test made on one child:
\* "(dev.Rn in self.CIMC_BOOT_DEVICES_MAPPING and int(dev.Order)) > 0",
\* a ValueError or AttributeError of int(dev.Order) skipping the child.
LegacyKeepZeroOrder(c) ==
    IF c.rn \in DOMAIN CIMC_BOOT_DEVICES_MAPPING
    THEN c.valid /\ c.ord >= 0
    ELSE FALSE
LegacyKeep(c) ==
    IF c.rn \in DOMAIN CIMC_BOOT_DEVICES_MAPPING
    THEN c.valid /\ c.ord > 0
    ELSE FALSE

RECURSIVE LegacyList(_)
LegacyList(children) ==
    IF children = <<>> THEN <<>>
    ELSE LET c == Head(children)
         IN  (IF LegacyKeep(c)
              THEN << [order |-> c.ord,
                       device |-> CIMC_BOOT_DEVICES_MAPPING[c.rn]] >>
              ELSE <<>>) \o LegacyList(Tail(children))

\* _get_boot_devices: the list it returns for the endpoint's present state.
BootDevices ==
    IF bootMode = "Legacy" THEN LegacyList(bootDefs) ELSE PrecisionDevices

\* The remote calls _get_boot_devices makes.
BootDeviceCalls ==
    IF bootMode = "Legacy"
    THEN <<"read:bios_mode", "query:lsbootDef">>
    ELSE <<"read:bios_mode", "read:bdgep", "read:boot_precision">>

\* The calls submitted by one run of _get_boot_devices that ends as r: a
\* call that raises is the last one submitted.
BootReadCalls(r) ==
    IF r = "raise"
    THEN {SubSeq(BootDeviceCalls, 1, n) : n \in 1 .. Len(BootDeviceCalls)}
    ELSE {BootDeviceCalls}

BootRet(k, l) == [NoRet EXCEPT !.kind = k, !.list = l]

\* set_boot_device: an entry with the requested device and order is listed.
ConvergedNever(l, d, o) == FALSE
Converged(l, d, o) ==
    \E i \in DOMAIN l : l[i].device = d /\ l[i].order = o

\* The endpoint after an accepted write of a boot object: an existing
\* object gets the order, a new one is added after the others.
BootWrittenMakesRoom(d, o) ==
    LET rn == BOOT_DEVICES_CIMC_ATTRS[d] IN
    IF \E i \in DOMAIN bootDefs : bootDefs[i].rn = rn
    THEN [i \in DOMAIN bootDefs |->
            IF bootDefs[i].rn = rn
            THEN [bootDefs[i] EXCEPT !.ord = o, !.valid = TRUE]
            ELSE IF bootDefs[i].ord = o
                 THEN [bootDefs[i] EXCEPT !.ord = 0]
                 ELSE bootDefs[i]]
    ELSE Append([i \in DOMAIN bootDefs |->
                    IF bootDefs[i].ord = o
                    THEN [bootDefs[i] EXCEPT !.ord = 0]
                    ELSE bootDefs[i]],
                [rn |-> rn, ord |-> o, valid |-> TRUE])
BootWritten(d, o) ==
    LET rn == BOOT_DEVICES_CIMC_ATTRS[d] IN
    IF \E i \in DOMAIN bootDefs : bootDefs[i].rn = rn
    THEN [i \in DOMAIN bootDefs |->
            IF bootDefs[i].rn = rn
            THEN [bootDefs[i] EXCEPT !.ord = o, !.valid = TRUE]
            ELSE bootDefs[i]]
    ELSE Append(bootDefs, [rn |-> rn, ord |-> o, valid |-> TRUE])

\* set_boot_device: "if bios_mode != 'Legacy': raise"
ModeRejectedNever(m) == FALSE
ModeRejected(m) == m /= "Legacy"

GetBootList ==
    /\ pc = "gb_list"
    /\ \E r \in {"ok", "raise", "error_code"} :
         /\ r = "error_code" => bootMode = "Legacy"
         /\ calls' \in {calls \o c : c \in BootReadCalls(r)}
         /\ CASE r = "ok" -> ret' = BootRet("boot_device", BootDevices) /\ Leave
              [] r = "raise" -> ret' = ret /\ Raise("RemoteError")
              [] r = "error_code" ->
                   ret' = ret /\ Raise("RemoteOperationFailed")
    /\ UNCHANGED <<remoteVars, localVars, todo, prev, op, args, timeout,
                   session, changed, outcome, err, loginOk, collision, pre,
                   observed, raised_arg,
                   other, pveVars>>

SetBootMode ==
    /\ pc = "sb_mode"
    /\ Submit("read:bios_mode")
    /\ \E ok \in BOOLEAN :
         IF ok
         THEN IF ModeRejected(bootMode)
              THEN Raise("UnsupportedOperation")
              ELSE pc' = "sb_list" /\ raised' = raised
         ELSE Raise("RemoteError")
    /\ UNCHANGED <<remoteVars, localVars, todo, prev, op, args, timeout,
                   session, changed, outcome, err, ret, loginOk, collision,
                   pre,
                   observed, raised_arg,
                   other, pveVars>>

SetBootList ==
    /\ pc = "sb_list"
    /\ \E r \in {"ok", "raise", "error_code"} :
         /\ r = "error_code" => bootMode = "Legacy"
         /\ calls' \in {calls \o c : c \in BootReadCalls(r)}
         /\ CASE r = "ok" ->
                   IF Converged(BootDevices, args.device, args.order)
                   THEN ret' = BootRet("list", BootDevices) /\ Leave
                   ELSE ret' = ret /\ pc' = "sb_get" /\ raised' = raised
              [] r = "raise" -> ret' = ret /\ Raise("RemoteError")
              [] r = "error_code" ->
                   ret' = ret /\ Raise("RemoteOperationFailed")
    /\ UNCHANGED <<remoteVars, localVars, todo, prev, op, args, timeout,
                   session, changed, outcome, err, loginOk, collision, pre,
                   observed, raised_arg,
                   other, pveVars>>

SetBootGet ==
    /\ pc = "sb_get"
    /\ Submit("read:boot_object")
    /\ \E ok \in BOOLEAN :
         IF ok
         THEN /\ boot_found' =
                   (\E i \in DOMAIN bootDefs :
                        bootDefs[i].rn = BOOT_DEVICES_CIMC_ATTRS[args.device])
              /\ pc' = "sb_write" /\ raised' = raised
         ELSE boot_found' = boot_found /\ Raise("RemoteError")
    /\ UNCHANGED <<remoteVars, left, expect_state, cimc_power_ops,
                   current_power, found, old_mapping, need_update, todo,
                   prev, op, args, timeout, session, changed, outcome, err,
                   ret, loginOk, collision, pre,
                   observed, raised_arg,
                   other, pveVars>>

SetBootWrite ==
    /\ pc = "sb_write"
    /\ Submit(IF boot_found THEN "write:boot_update" ELSE "write:boot_create")
    /\ \E ok \in BOOLEAN :
         IF ok
         THEN /\ bootDefs' = BootWritten(args.device, args.order)
              /\ pc' = "sb_reread" /\ raised' = raised
         ELSE bootDefs' = bootDefs /\ Raise("RemoteError")
    /\ UNCHANGED <<power, pendingCmd, bootMode, vmEnabled, vmaps, blank,
                   localVars, todo, prev, op, args, timeout, session,
                   changed, outcome, err, ret, loginOk, collision, pre,
                   observed, raised_arg,
                   other, pveVars>>

SetBootReread ==
    /\ pc = "sb_reread"
    /\ \E r \in {"ok", "raise", "error_code"} :
         /\ r = "error_code" => bootMode = "Legacy"
         /\ calls' \in {calls \o c : c \in BootReadCalls(r)}
         /\ CASE r = "ok" ->
                   /\ changed' = TRUE
                   /\ ret' = BootRet("list", BootDevices)
                   /\ Leave
              [] r = "raise" ->
                   changed' = changed /\ ret' = ret /\ Raise("RemoteError")
              [] r = "error_code" ->
                   /\ changed' = changed /\ ret' = ret
                   /\ Raise("RemoteOperationFailed")
    /\ UNCHANGED <<remoteVars, localVars, todo, prev, op, args, timeout,
                   session, outcome, err, loginOk, collision, pre,
                   observed, raised_arg,
                   other, pveVars>>

GetBootDevice == Invoke("get_boot_device", NoArgs, DefaultTimeout)

\* The requests of set_boot_device: every known device with every order
\* from 0 to 5, one device with the orders -1 and 6, and a device that is
\* not known.
BootRequests ==
    {[NoArgs EXCEPT !.device = d, !.order = o] :
        d \in DeviceRequests \ {"USB"}, o \in OrderRequests \cap (0 .. 5)}
    \cup {[NoArgs EXCEPT !.device = "PXE", !.order = o] :
            o \in OrderRequests \ (0 .. 5)}
    \cup {[NoArgs EXCEPT !.device = "USB", !.order = 1]}

SetBootDevice ==
    \E a \in BootRequests : Invoke("set_boot_device", a, DefaultTimeout)

----------------------------------------------------------------------------
(* Network adaptors: get_net_adaptors, set_net_adaptors *)

\* The AdaptorUnit objects of the endpoint and the vnics of each.
NetAdaptors ==
    << [rn |-> "adaptor-1", vnics |-> <<"eth0", "eth1">>],
       [rn |-> "adaptor-2", vnics |-> <<>>] >>

RECURSIVE NetAdaptorCalls(_)
NetAdaptorCalls(adaptors) ==
    IF adaptors = <<>> THEN <<>>
    ELSE <<"read:vnics">>
         \o [i \in DOMAIN Head(adaptors).vnics |-> "read:eth_profile"]
         \o NetAdaptorCalls(Tail(adaptors))

GetNetRead ==
    /\ pc = "gn_read"
    /\ LET all == <<"read:rack_unit", "read:adaptors">>
                  \o NetAdaptorCalls(NetAdaptors)
       IN  \E ok \in BOOLEAN :
             IF ok
             THEN /\ calls' = calls \o all
                  /\ ret' = [NoRet EXCEPT !.kind = "net_adaptors",
                                          !.list = NetAdaptors]
                  /\ Leave
             ELSE /\ \E n \in 1 .. Len(all) :
                        calls' = calls \o SubSeq(all, 1, n)
                  /\ ret' = ret
                  /\ Raise("RemoteError")
    /\ UNCHANGED <<remoteVars, localVars, todo, prev, op, args, timeout,
                   session, changed, outcome, err, loginOk, collision, pre,
                   observed, raised_arg,
                   other, pveVars>>

GetNetAdaptors == Invoke("get_net_adaptors", NoArgs, DefaultTimeout)

\* The configs given to set_net_adaptors: none, and one with a key.
NetRequests == {NoArgs, [NoArgs EXCEPT !.name = "eth0"]}

SetNetAdaptors ==
    \E a \in NetRequests : Invoke("set_net_adaptors", a, DefaultTimeout)

----------------------------------------------------------------------------
(* Virtual media: get_vmedias, set_vmedias and their helpers *)

\* "vmmap-%s" % name: the part of the Dn and Rn that names the mapping.
NameStr(n) == IF n = None THEN "None" ELSE n

\* set_vmedias: config.get('mount_options', CIMC_VMEDIA_MAP_OPTIONS[map]).
\* An option string is modelled as the sequence of its comma-separated
\* parts.
MountOptions(a) ==
    IF a.mount_options = None
    THEN <<CIMC_VMEDIA_MAP_OPTIONS[a.map]>>
    ELSE <<a.mount_options>>

\* set_vmedias: new_mapping.
NewMapping(a) ==
    [dn |-> NameStr(a.name), name |-> a.name, file |-> a.remote_file,
     share |-> a.remote_share, map |-> a.map, opts |-> MountOptions(a),
     user |-> a.user, pass |-> a.password]

\* _create_vmedia_mapping: Username and Password are taken out of the
\* mapping and, when not empty, appended to its MountOptions.
Folded(m) ==
    m.opts \o (IF Truthy(m.user) THEN <<"username=" \o m.user>> ELSE <<>>)
           \o (IF Truthy(m.pass) THEN <<"password=" \o m.pass>> ELSE <<>>)

\* The object the endpoint holds after it accepted the create of m: it is
\* named by its Dn, and no Username or Password attribute was sent.
Created(m) ==
    [dn |-> m.dn, name |-> m.dn, file |-> m.file, share |-> m.share,
     map |-> m.map, opts |-> Folded(m), user |-> blank.user,
     pass |-> blank.pass]

\* _update_vmedia_mapping: some compared field of old differs from new.
NeedUpdateWithoutFile(old, new) ==
    \/ old.share /= new.share
    \/ old.user /= new.user
    \/ old.pass /= new.pass
    \/ old.map /= new.map
    \/ old.opts /= new.opts
NeedUpdate(old, new) ==
    \/ old.file /= new.file
    \/ old.share /= new.share
    \/ old.user /= new.user
    \/ old.pass /= new.pass
    \/ old.map /= new.map
    \/ old.opts /= new.opts

\* set_vmedias: the mappings whose VolumeName is the requested name.
Matching(n) == {m \in vmaps : m.name = n}

\* set_vmedias: the step taken after the mappings were read.
NoneFoundStepCreates == "sv_create"
NoneFoundStep == IF args.map = "unmap" THEN "sv_reread" ELSE "sv_create"
FoundStepKeepsOnUnmap(upd) ==
    IF args.map = "unmap" THEN "sv_reread"
    ELSE IF upd THEN "sv_delete" ELSE "sv_reread"
FoundStepCreatesOver(upd) ==
    IF args.map = "unmap" THEN "sv_delete"
    ELSE IF upd THEN "sv_create" ELSE "sv_reread"
FoundStepRecreatesInSync(upd) ==
    IF args.map = "unmap" THEN "sv_delete"
    ELSE IF upd THEN "sv_delete" ELSE "sv_create"
FoundStep(upd) ==
    IF args.map = "unmap" THEN "sv_delete"
    ELSE IF upd THEN "sv_delete" ELSE "sv_reread"

\* set_vmedias, _update_vmedia_mapping: the step taken after a delete.
AfterDelete == IF args.map = "unmap" THEN "sv_reread" ELSE "sv_create"

VmediaRet(en, ms) ==
    [NoRet EXCEPT !.kind = "vmedias", !.enabled = en, !.mappings = ms]

GetVmediaEnabledEnables ==
    /\ pc = "gv_enabled"
    /\ calls' = calls \o (IF vmEnabled THEN <<"read:vmedia_svc">>
                          ELSE <<"read:vmedia_svc", "write:vmedia_enable">>)
    /\ vmEnabled' = TRUE
    /\ pc' = "gv_list"
    /\ UNCHANGED <<power, pendingCmd, bootMode, bootDefs, vmaps, blank,
                   localVars, todo, prev, op, args, timeout, session,
                   changed, raised, outcome, err, ret, loginOk, collision,
                   pre, observed, raised_arg,
                   other, pveVars>>
GetVmediaEnabled ==
    /\ pc = "gv_enabled"
    /\ Submit("read:vmedia_svc")
    /\ \E ok \in BOOLEAN :
         IF ok
         THEN IF vmEnabled
              THEN ret' = ret /\ pc' = "gv_list" /\ raised' = raised
              ELSE ret' = VmediaRet(FALSE, {}) /\ Leave
         ELSE ret' = ret /\ Raise("RemoteError")
    /\ UNCHANGED <<remoteVars, localVars, todo, prev, op, args, timeout,
                   session, changed, outcome, err, loginOk, collision, pre,
                   observed, raised_arg,
                   other, pveVars>>

GetVmediaList ==
    /\ pc = "gv_list"
    /\ Submit("read:vmedia_maps")
    /\ \E ok \in BOOLEAN :
         IF ok
         THEN ret' = VmediaRet(TRUE, vmaps) /\ Leave
         ELSE ret' = ret /\ Raise("RemoteError")
    /\ UNCHANGED <<remoteVars, localVars, todo, prev, op, args, timeout,
                   session, changed, outcome, err, loginOk, collision, pre,
                   observed, raised_arg,
                   other, pveVars>>

SetVmediaEnabled ==
    /\ pc = "sv_enabled"
    /\ Submit("read:vmedia_svc")
    /\ \E ok \in BOOLEAN :
         IF ok
         THEN /\ pc' = IF vmEnabled THEN "sv_list" ELSE "sv_enable"
              /\ raised' = raised
         ELSE Raise("RemoteError")
    /\ UNCHANGED <<remoteVars, localVars, todo, prev, op, args, timeout,
                   session, changed, outcome, err, ret, loginOk, collision,
                   pre,
                   observed, raised_arg,
                   other, pveVars>>

\* set_vmedias: the service found disabled is enabled and changed is set.
SetVmediaEnableSkipped ==
    /\ pc = "sv_enable"
    /\ pc' = "sv_list"
    /\ UNCHANGED <<remoteVars, localVars, todo, prev, op, args, timeout,
                   session, changed, raised, outcome, err, ret, calls,
                   loginOk, collision, pre, observed, raised_arg,
                   other, pveVars>>
SetVmediaEnableUnmarked ==
    /\ pc = "sv_enable"
    /\ Submit("write:vmedia_enable")
    /\ \E ok \in BOOLEAN :
         IF ok
         THEN /\ vmEnabled' = TRUE /\ changed' = changed
              /\ pc' = "sv_list" /\ raised' = raised
         ELSE /\ vmEnabled' = vmEnabled /\ changed' = changed
              /\ Raise("RemoteError")
    /\ UNCHANGED <<power, pendingCmd, bootMode, bootDefs, vmaps, blank,
                   localVars, todo, prev, op, args, timeout, session,
                   outcome, err, ret, loginOk, collision, pre,
                   observed, raised_arg,
                   other, pveVars>>
SetVmediaEnable ==
    /\ pc = "sv_enable"
    /\ Submit("write:vmedia_enable")
    /\ \E ok \in BOOLEAN :
         IF ok
         THEN /\ vmEnabled' = TRUE /\ changed' = TRUE
              /\ pc' = "sv_list" /\ raised' = raised
         ELSE /\ vmEnabled' = vmEnabled /\ changed' = changed
              /\ Raise("RemoteError")
    /\ UNCHANGED <<power, pendingCmd, bootMode, bootDefs, vmaps, blank,
                   localVars, todo, prev, op, args, timeout, session,
                   outcome, err, ret, loginOk, collision, pre,
                   observed, raised_arg,
                   other, pveVars>>

\* The raw mappings are read and the first one with the requested name is
\* looked for; the decision table of set_vmedias picks the next step.
SetVmediaList ==
    /\ pc = "sv_list"
    /\ Submit("read:vmedia_maps")
    /\ \E ok \in BOOLEAN :
         IF ok
         THEN IF Matching(args.name) = {}
              THEN /\ found' = FALSE /\ old_mapping' = NoMapping
                   /\ need_update' = FALSE
                   /\ pc' = NoneFoundStep /\ raised' = raised
              ELSE \E m \in Matching(args.name) :
                     /\ found' = TRUE /\ old_mapping' = m
                     /\ need_update' = NeedUpdate(m, NewMapping(args))
                     /\ pc' = FoundStep(NeedUpdate(m, NewMapping(args)))
                     /\ raised' = raised
         ELSE /\ found' = found /\ old_mapping' = old_mapping
              /\ need_update' = need_update
              /\ Raise("RemoteError")
    /\ UNCHANGED <<remoteVars, left, expect_state, cimc_power_ops,
                   current_power, boot_found, todo, prev, op, args,
                   timeout, session, changed, outcome, err, ret, loginOk,
                   collision, pre,
                   observed, raised_arg,
                   other, pveVars>>

\* The description the endpoint gives with a non-zero error code.
ErrorDescr == "error_descr"

\* _delete_vmedia_mapping: a configConfMo of the old mapping with status
\* "removed"; a non-zero error code of the answer is raised with the
\* description of the answer.
SetVmediaDeleteIgnoresErrorCode ==
    /\ pc = "sv_delete"
    /\ Submit("write:vmedia_delete")
    /\ \E r \in {"ok", "raise", "error_code"} :
         CASE r = "ok" ->
                /\ vmaps' = {m \in vmaps : m.dn /= old_mapping.dn}
                /\ changed' = TRUE
                /\ pc' = AfterDelete /\ raised' = raised
           [] r = "raise" ->
                vmaps' = vmaps /\ changed' = changed /\ Raise("RemoteError")
           [] r = "error_code" ->
                /\ vmaps' = vmaps /\ changed' = TRUE
                /\ pc' = AfterDelete /\ raised' = raised
    /\ UNCHANGED <<power, pendingCmd, bootMode, bootDefs, vmEnabled, blank,
                   localVars, todo, prev, op, args, timeout, session,
                   outcome, err, ret, loginOk, collision, pre,
                   observed, raised_arg,
                   other, pveVars>>
SetVmediaDelete ==
    /\ pc = "sv_delete"
    /\ Submit("write:vmedia_delete")
    /\ \E r \in {"ok", "raise", "error_code"} :
         CASE r = "ok" ->
                /\ vmaps' = {m \in vmaps : m.dn /= old_mapping.dn}
                /\ changed' = TRUE /\ raised_arg' = raised_arg
                /\ pc' = AfterDelete /\ raised' = raised
           [] r = "raise" ->
                /\ vmaps' = vmaps /\ changed' = changed
                /\ raised_arg' = raised_arg
                /\ Raise("RemoteError")
           [] r = "error_code" ->
                /\ vmaps' = vmaps /\ changed' = changed
                /\ raised_arg' = ErrorDescr
                /\ Raise("RemoteOperationFailed")
    /\ UNCHANGED <<power, pendingCmd, bootMode, bootDefs, vmEnabled, blank,
                   localVars, todo, prev, op, args, timeout, session,
                   outcome, err, ret, loginOk, collision, pre,
                   observed,
                   other, pveVars>>

\* _create_vmedia_mapping.  The endpoint refuses to create an object at a
\* Dn that holds one.
SetVmediaCreateRestores ==
    /\ pc = "sv_create"
    /\ Submit("write:vmedia_create")
    /\ collision' = (collision
                     \/ \E m \in vmaps : m.name = NameStr(args.name))
    /\ \E ok \in BOOLEAN :
         IF ok /\ ~(\E m \in vmaps : m.dn = NewMapping(args).dn)
         THEN /\ vmaps' = vmaps \cup {Created(NewMapping(args))}
              /\ changed' = TRUE
              /\ pc' = "sv_reread" /\ raised' = raised
         ELSE /\ vmaps' = vmaps \cup (IF found THEN {old_mapping} ELSE {})
              /\ changed' = changed /\ Raise("RemoteError")
    /\ UNCHANGED <<power, pendingCmd, bootMode, bootDefs, vmEnabled, blank,
                   localVars, todo, prev, op, args, timeout, session,
                   outcome, err, ret, loginOk, pre,
                   observed, raised_arg,
                   other, pveVars>>
SetVmediaCreate ==
    /\ pc = "sv_create"
    /\ Submit("write:vmedia_create")
    /\ collision' = (collision
                     \/ \E m \in vmaps : m.name = NameStr(args.name))
    /\ \E ok \in BOOLEAN :
         IF ok /\ ~(\E m \in vmaps : m.dn = NewMapping(args).dn)
         THEN /\ vmaps' = vmaps \cup {Created(NewMapping(args))}
              /\ changed' = TRUE
              /\ pc' = "sv_reread" /\ raised' = raised
         ELSE vmaps' = vmaps /\ changed' = changed /\ Raise("RemoteError")
    /\ UNCHANGED <<power, pendingCmd, bootMode, bootDefs, vmEnabled, blank,
                   localVars, todo, prev, op, args, timeout, session,
                   outcome, err, ret, loginOk, pre,
                   observed, raised_arg,
                   other, pveVars>>

SetVmediaReread ==
    /\ pc = "sv_reread"
    /\ Submit("read:vmedia_maps")
    /\ \E ok \in BOOLEAN :
         IF ok
         THEN ret' = VmediaRet(TRUE, vmaps) /\ Leave
         ELSE ret' = ret /\ Raise("RemoteError")
    /\ UNCHANGED <<remoteVars, localVars, todo, prev, op, args, timeout,
                   session, changed, outcome, err, loginOk, collision, pre,
                   observed, raised_arg,
                   other, pveVars>>

GetVmedias == Invoke("get_vmedias", NoArgs, DefaultTimeout)

\* The requests of set_vmedias: a mount of a named mapping (with the
\* defaults, with credentials, or with overridden mount options), a mount
\* without a name, an unmap (name and map only), a map kind that is not
\* accepted (or none).
MountRequests ==
    {[NoArgs EXCEPT !.name = n, !.remote_file = f, !.remote_share = sh,
                    !.map = m] :
        n \in NameRequests \ {None}, f \in FileRequests,
        sh \in ShareRequests, m \in MapRequests \ {"unmap", "ftp", None}}
    \cup
    {[NoArgs EXCEPT !.name = n, !.remote_file = f, !.remote_share = sh,
                    !.map = m, !.user = u, !.password = pw] :
        n \in NameRequests \ {None}, f \in FileRequests,
        sh \in ShareRequests, m \in {"www", "cifs"},
        u \in UserRequests \ {None}, pw \in PasswordRequests \ {""}}
    \cup
    {[NoArgs EXCEPT !.name = n, !.remote_file = f, !.remote_share = sh,
                    !.map = "www", !.mount_options = mo] :
        n \in NameRequests \ {None}, f \in FileRequests,
        sh \in ShareRequests, mo \in MountOptionRequests \ {None}}
    \cup
    {[NoArgs EXCEPT !.remote_file = "x.iso", !.remote_share = sh,
                    !.map = "www"] : sh \in ShareRequests}

OtherMapRequests ==
    {[NoArgs EXCEPT !.name = n, !.map = "unmap"] :
        n \in NameRequests \cup {""}}
    \cup {[NoArgs EXCEPT !.name = "iso1", !.map = m] : m \in {"ftp", None}}

SetVmedias ==
    \E a \in MountRequests \cup OtherMapRequests :
        Invoke("set_vmedias", a, DefaultTimeout)

----------------------------------------------------------------------------
(* Two invocations against one endpoint *)

\* The caller's and the invocation's variables, as one record.
Context ==
    [todo |-> todo, prev |-> prev, op |-> op, args |-> args,
     timeout |-> timeout, pc |-> pc, session |-> session,
     changed |-> changed, raised |-> raised, outcome |-> outcome,
     err |-> err, ret |-> ret, left |-> left,
     expect_state |-> expect_state, cimc_power_ops |-> cimc_power_ops,
     current_power |-> current_power, boot_found |-> boot_found,
     found |-> found, old_mapping |-> old_mapping,
     need_update |-> need_update, calls |-> calls, loginOk |-> loginOk,
     collision |-> collision, pre |-> pre, observed |-> observed,
     raised_arg |-> raised_arg]

\* No second invocation: nothing is waiting for its turn.
NoOther == [todo |-> 0, pc |-> "idle"]

\* A caller that still makes n invocations and has made none.
IdleContext(n) ==
    [todo |-> n, prev |-> NoPrev, op |-> None, args |-> NoArgs,
     timeout |-> DefaultTimeout, pc |-> "idle", session |-> "none",
     changed |-> FALSE, raised |-> None, outcome |-> "none",
     err |-> None, ret |-> NoRet, left |-> 0,
     expect_state |-> None, cimc_power_ops |-> None,
     current_power |-> None, boot_found |-> FALSE,
     found |-> FALSE, old_mapping |-> NoMapping,
     need_update |-> FALSE, calls |-> <<>>, loginOk |-> FALSE,
     collision |-> FALSE, pre |-> Snapshot, observed |-> <<>>,
     raised_arg |-> None]

\* Each invocation is a process of its own, with its own broker and its
\* own session; nothing but the endpoint is shared, and the processes are
\* interleaved between any two remote calls.  The turn passes to the other
\* process when that one has a step to take.
Switch ==
    /\ other.todo > 0 \/ other.pc \notin {"idle", "done"}
    /\ other' = Context
    /\ todo' = other.todo /\ prev' = other.prev /\ op' = other.op
    /\ args' = other.args /\ timeout' = other.timeout /\ pc' = other.pc
    /\ session' = other.session /\ changed' = other.changed
    /\ raised' = other.raised /\ outcome' = other.outcome
    /\ err' = other.err /\ ret' = other.ret /\ left' = other.left
    /\ expect_state' = other.expect_state
    /\ cimc_power_ops' = other.cimc_power_ops
    /\ current_power' = other.current_power
    /\ boot_found' = other.boot_found /\ found' = other.found
    /\ old_mapping' = other.old_mapping
    /\ need_update' = other.need_update /\ calls' = other.calls
    /\ loginOk' = other.loginOk /\ collision' = other.collision
    /\ pre' = other.pre /\ observed' = other.observed
    /\ raised_arg' = other.raised_arg
    /\ UNCHANGED <<remoteVars, pveVars>>

\* Mounts of one name, with one file or another.
ConcurrentRequests ==
    {[NoArgs EXCEPT !.name = "iso1", !.remote_file = f,
                    !.remote_share = "http://h/", !.map = "www"] :
        f \in FileRequests}

SetVmediasSameName ==
    \E a \in ConcurrentRequests : Invoke("set_vmedias", a, DefaultTimeout)

----------------------------------------------------------------------------
(* Proxmox: ProxmoxBroker.get_instance, stop_instance, delete_instance,
   _wait_until_timeout *)

\* A local variable that was never assigned.
Unbound == "<unbound>"

\* The first line of the log of a task.
LastLog == "log"

TaskTimeouts == (-1) .. MaxTimeout

NoTask == [status |-> "none", exitstatus |-> None]
Running == [status |-> "running", exitstatus |-> None]
NoTasks == [stop |-> NoTask, delete |-> NoTask]

\* What an operation, or _wait_until_timeout, returned, if it has.
Result(rc, ch, m) ==
    [returned |-> TRUE, rc |-> rc, changed |-> ch, msg |-> m]
NoResult ==
    [returned |-> FALSE, rc |-> FALSE, changed |-> FALSE, msg |-> None]
NoWaitRet == [returned |-> FALSE, success |-> FALSE, log |-> None]

cimcVars ==
    <<remoteVars, localVars, todo, prev, op, args, timeout, pc, session,
      changed, raised, outcome, err, ret, calls, loginOk, collision, pre,
      observed, raised_arg, other>>

PSubmit(cs) == pcalls' = pcalls \o cs

\* An exception leaves the operation; nothing in the module catches it.
PRaise(e) == praised' = e /\ ppc' = "done"

\* main: task = stop or delete, with the force and timeout parameters.
ProxmoxInvoke(t, f, to) ==
    /\ ppc = "idle"
    /\ task' = t /\ force' = f /\ task_timeout' = to
    /\ ppc' = IF t = "stop" THEN "stop_get" ELSE "delete_get"
    /\ UNCHANGED <<cimcVars, vmStatus, tasks, wait_timeout, msg, wait_ret,
                   stop_ret, pret, praised, pcalls, polls, del_on>>

StopTask ==
    \E f \in BOOLEAN, to \in TaskTimeouts : ProxmoxInvoke("stop", f, to)

DeleteTask ==
    \E f \in BOOLEAN, to \in TaskTimeouts : ProxmoxInvoke("delete", f, to)

\* stop_instance returns: to main, or to the delete_instance that called
\* it, which drops the value and goes on to the delete request.
StopReturns(r) ==
    IF task = "delete"
    THEN stop_ret' = r /\ pret' = pret /\ ppc' = "delete_post"
    ELSE stop_ret' = stop_ret /\ pret' = r /\ ppc' = "done"

\* stop_instance: get_instance and the two early returns.
StopGet ==
    /\ ppc = "stop_get"
    /\ PSubmit(<<"get:resources">>)
    /\ \E ok \in BOOLEAN :
         IF ~ok
         THEN PRaise("APIError") /\ stop_ret' = stop_ret /\ pret' = pret
         ELSE /\ praised' = praised
              /\ CASE vmStatus = "absent" ->
                        StopReturns(Result(FALSE, FALSE, "not found"))
                   [] vmStatus = "stopped" ->
                        StopReturns(Result(TRUE, FALSE, "already stopped"))
                   [] OTHER ->
                        /\ ppc' = "stop_post"
                        /\ stop_ret' = stop_ret /\ pret' = pret
    /\ UNCHANGED <<cimcVars, vmStatus, tasks, task, force, task_timeout,
                   wait_timeout, msg, wait_ret, polls, del_on>>

\* stop_instance: the force it runs with; delete_instance passes force=True.
StopForce == IF task = "delete" THEN TRUE ELSE force

\* stop_instance: status.stop.post() or status.shutdown.post(), then the
\* call of _wait_until_timeout, which begins with timeout = self.timeout.
StopPost ==
    /\ ppc = "stop_post"
    /\ PSubmit(<<IF StopForce THEN "post:stop" ELSE "post:shutdown">>)
    /\ \E ok \in BOOLEAN :
         IF ok
         THEN /\ tasks' = [tasks EXCEPT !.stop = Running]
              /\ wait_timeout' = task_timeout /\ msg' = Unbound
              /\ polls' = 0
              /\ ppc' = "stop_wait" /\ praised' = praised
         ELSE /\ PRaise("APIError")
              /\ UNCHANGED <<tasks, wait_timeout, msg, polls>>
    /\ UNCHANGED <<cimcVars, vmStatus, task, force, task_timeout, wait_ret,
                   stop_ret, pret, del_on>>

\* The task _wait_until_timeout waits for and the status it expects.
Waited == IF ppc = "stop_wait" THEN "stop" ELSE "delete"
Expected == IF ppc = "stop_wait" THEN "stopped" ELSE "absent"

\* "task_status['status'] == 'stopped' and task_status['exitstatus'] == 'OK'"
TaskDone(k) == tasks[k].status = "stopped" /\ tasks[k].exitstatus = "OK"

\* The reads of one round of the loop: the status of the task and, when
\* the task is done, the instance.
StatusCalls ==
    <<"get:task_status">>
    \o (IF TaskDone(Waited) THEN <<"get:vm">> ELSE <<>>)

\* _wait_until_timeout returns to its caller, which builds its own result.
WaitReturns(success, log) ==
    /\ wait_ret' = [returned |-> TRUE, success |-> success, log |-> log]
    /\ IF ppc = "stop_wait"
       THEN StopReturns(IF success
                        THEN Result(TRUE, TRUE, "stopped")
                        ELSE Result(FALSE, TRUE, "timeout stopping"))
       ELSE /\ pret' = IF success
                       THEN Result(TRUE, TRUE, "deleted")
                       ELSE Result(FALSE, TRUE, "timeout deleting")
            /\ ppc' = "done" /\ stop_ret' = stop_ret

\* _wait_until_timeout: one round of "while timeout >= 0", or, when the
\* condition fails, the "return False, msg" after the loop.
WaitPoll ==
    /\ ppc \in {"stop_wait", "delete_wait"}
    /\ IF wait_timeout >= 0
       THEN \E ok \in BOOLEAN :
              /\ polls' = polls + 1
              /\ IF ~ok
                 THEN /\ PSubmit(<<"get:task_status">>)
                      /\ PRaise("APIError")
                      /\ UNCHANGED <<wait_timeout, msg, wait_ret, stop_ret,
                                     pret>>
                 ELSE IF TaskDone(Waited) /\ vmStatus = Expected
                 THEN /\ PSubmit(StatusCalls)
                      /\ WaitReturns(TRUE, "OK")
                      /\ UNCHANGED <<wait_timeout, msg, praised>>
                 ELSE /\ wait_timeout' = wait_timeout - 1
                      /\ praised' = praised
                      /\ IF wait_timeout - 1 = 0
                         THEN /\ PSubmit(StatusCalls \o <<"get:task_log">>)
                              /\ msg' = LastLog
                              /\ WaitReturns(FALSE, LastLog)
                         ELSE /\ PSubmit(StatusCalls)
                              /\ UNCHANGED <<msg, wait_ret, stop_ret, pret,
                                             ppc>>
       ELSE /\ IF msg = Unbound
               THEN /\ PRaise("UnboundLocalError")
                    /\ UNCHANGED <<wait_ret, stop_ret, pret>>
               ELSE WaitReturns(FALSE, msg) /\ praised' = praised
            /\ UNCHANGED <<pcalls, polls, wait_timeout, msg>>
    /\ UNCHANGED <<cimcVars, vmStatus, tasks, task, force, task_timeout,
                   del_on>>

\* delete_instance: get_instance and the two early returns; with force an
\* instance that is not stopped is handed to stop_instance first.
DeleteGet ==
    /\ ppc = "delete_get"
    /\ PSubmit(<<"get:resources">>)
    /\ \E ok \in BOOLEAN :
         IF ~ok
         THEN PRaise("APIError") /\ pret' = pret
         ELSE /\ praised' = praised
              /\ CASE vmStatus = "absent" ->
                        /\ pret' = Result(TRUE, FALSE, "already absent")
                        /\ ppc' = "done"
                   [] vmStatus /= "absent" /\ vmStatus /= "stopped"
                      /\ ~force ->
                        /\ pret' = Result(FALSE, FALSE, "not stopped")
                        /\ ppc' = "done"
                   [] OTHER ->
                        /\ pret' = pret
                        /\ ppc' = IF vmStatus /= "stopped" /\ force
                                  THEN "stop_get" ELSE "delete_post"
    /\ UNCHANGED <<cimcVars, vmStatus, tasks, task, force, task_timeout,
                   wait_timeout, msg, wait_ret, stop_ret, polls, del_on>>

\* delete_instance: qemu(vmid).delete(), then _wait_until_timeout.
DeletePost ==
    /\ ppc = "delete_post"
    /\ PSubmit(<<"delete">>)
    /\ del_on' = vmStatus
    /\ \E ok \in BOOLEAN :
         IF ok
         THEN /\ tasks' = [tasks EXCEPT !.delete = Running]
              /\ wait_timeout' = task_timeout /\ msg' = Unbound
              /\ polls' = 0
              /\ ppc' = "delete_wait" /\ praised' = praised
         ELSE /\ PRaise("APIError")
              /\ UNCHANGED <<tasks, wait_timeout, msg, polls>>
    /\ UNCHANGED <<cimcVars, vmStatus, task, force, task_timeout, wait_ret,
                   stop_ret, pret>>

\* The node ends a task it runs: a stop or shutdown that succeeds leaves
\* the instance stopped; a delete succeeds only on a stopped instance and
\* removes it; a task that fails changes nothing.
TaskRuns ==
    /\ \E k \in {"stop", "delete"}, x \in {"OK", "ERR"} :
         /\ tasks[k].status = "running"
         /\ (k = "delete" /\ x = "OK") => vmStatus = "stopped"
         /\ tasks' = [tasks EXCEPT ![k] = [status |-> "stopped",
                                           exitstatus |-> x]]
         /\ vmStatus' =
              IF x = "ERR" THEN vmStatus
              ELSE IF k = "delete" THEN "absent"
              ELSE IF vmStatus = "running" THEN "stopped" ELSE vmStatus
    /\ UNCHANGED <<cimcVars, task, force, task_timeout, ppc, wait_timeout,
                   msg, wait_ret, stop_ret, pret, praised, pcalls, polls,
                   del_on>>

----------------------------------------------------------------------------
(* Initial states and specifications *)

\* A legacy boot definition: PXE first, HDD second, a disabled CDROM slot,
\* an EFI entry without a usable Order, a child of another kind, and no
\* FDD object.
InitialBootDefs ==
    << [rn |-> "lan-read-only", ord |-> 1, valid |-> TRUE],
       [rn |-> "storage-read-write", ord |-> 2, valid |-> TRUE],
       [rn |-> "vm-read-only", ord |-> 0, valid |-> TRUE],
       [rn |-> "efi-read-only", ord |-> 0, valid |-> FALSE],
       [rn |-> "usb-read-write", ord |-> 3, valid |-> TRUE] >>

\* A mapping mounted before the first invocation.
InitialMapping ==
    [dn |-> "iso1", name |-> "iso1", file |-> "x.iso", share |-> "http://h/",
     map |-> "www", opts |-> <<"noauto">>, user |-> blank.user,
     pass |-> blank.pass]

InvocationInit ==
    /\ prev = NoPrev
    /\ op = None /\ args = NoArgs /\ timeout = DefaultTimeout /\ pc = "idle"
    /\ session = "none" /\ changed = FALSE /\ raised = None
    /\ outcome = "none" /\ err = None /\ ret = NoRet
    /\ left = 0 /\ expect_state = None /\ cimc_power_ops = None
    /\ current_power = None /\ boot_found = FALSE /\ found = FALSE
    /\ old_mapping = NoMapping /\ need_update = FALSE
    /\ calls = <<>> /\ loginOk = FALSE /\ collision = FALSE
    /\ pre = Snapshot /\ observed = <<>> /\ raised_arg = None

PowerDefault == power = "on" /\ pendingCmd = None
PowerAny == power \in {"on", "off"} /\ pendingCmd = None

BootDefault == bootMode = "Legacy" /\ bootDefs = InitialBootDefs
BootAny ==
    /\ bootMode \in {"Legacy", "Precision"}
    /\ bootDefs = InitialBootDefs

VmediaDefault ==
    /\ blank = [user |-> "", pass |-> ""]
    /\ vmEnabled = TRUE /\ vmaps = {}
VmediaAny ==
    /\ blank \in [user : {None, ""}, pass : {""}]
    /\ \/ vmEnabled = FALSE /\ vmaps = {}
       \/ vmEnabled = TRUE /\ vmaps \in {{}, {InitialMapping}}

ProxmoxInvocationInit ==
    /\ tasks = NoTasks
    /\ task = None /\ force = FALSE /\ task_timeout = 0 /\ ppc = "idle"
    /\ wait_timeout = 0 /\ msg = Unbound /\ wait_ret = NoWaitRet
    /\ stop_ret = NoResult /\ pret = NoResult /\ praised = None
    /\ pcalls = <<>> /\ polls = 0 /\ del_on = None

\* No ProxmoxBroker is at work.
ProxmoxIdle == vmStatus = "stopped" /\ ProxmoxInvocationInit

\* Up to MaxCalls invocations in a row on one resource.
InitPower ==
    PowerAny /\ BootDefault /\ VmediaDefault /\ InvocationInit
    /\ todo = MaxCalls /\ other = NoOther /\ ProxmoxIdle
InitBoot ==
    PowerDefault /\ BootAny /\ VmediaDefault /\ InvocationInit
    /\ todo = MaxCalls /\ other = NoOther /\ ProxmoxIdle
InitVmedia ==
    PowerDefault /\ BootDefault /\ VmediaAny /\ InvocationInit
    /\ todo = MaxCalls /\ other = NoOther /\ ProxmoxIdle

\* One invocation of any operation, from any initial state of the endpoint.
Init ==
    PowerAny /\ BootAny /\ VmediaAny /\ InvocationInit /\ todo = 1
    /\ other = NoOther /\ ProxmoxIdle

Session == Login \/ Logout

NextPower ==
    \/ GetPower \/ SetPower \/ Session
    \/ GetPowerRead \/ SetPowerRead \/ SetPowerWrite \/ SetPowerPoll
    \/ RemoteApply

NextBoot ==
    \/ GetBootDevice \/ SetBootDevice \/ Session
    \/ GetBootList \/ SetBootMode \/ SetBootList \/ SetBootGet
    \/ SetBootWrite \/ SetBootReread

NextVmedia ==
    \/ GetVmedias \/ SetVmedias \/ Session
    \/ GetVmediaEnabled \/ GetVmediaList \/ SetVmediaEnabled
    \/ SetVmediaEnable \/ SetVmediaList \/ SetVmediaDelete
    \/ SetVmediaCreate \/ SetVmediaReread

Next ==
    \/ GetPower \/ SetPower \/ GetBootDevice \/ SetBootDevice
    \/ GetNetAdaptors \/ SetNetAdaptors \/ GetVmedias \/ SetVmedias
    \/ Login \/ Logout
    \/ GetPowerRead \/ SetPowerRead \/ SetPowerWrite \/ SetPowerPoll
    \/ RemoteApply
    \/ GetBootList \/ SetBootMode \/ SetBootList \/ SetBootGet
    \/ SetBootWrite \/ SetBootReread
    \/ GetNetRead
    \/ GetVmediaEnabled \/ GetVmediaList \/ SetVmediaEnabled
    \/ SetVmediaEnable \/ SetVmediaList \/ SetVmediaDelete
    \/ SetVmediaCreate \/ SetVmediaReread

Spec == Init /\ [][Next]_vars
SpecPower == InitPower /\ [][NextPower]_vars
SpecBoot == InitBoot /\ [][NextBoot]_vars
SpecVmedia == InitVmedia /\ [][NextVmedia]_vars

\* The steps of an invocation in progress: the interpreter goes on running
\* the operation, and every remote call it makes returns or raises.
Step ==
    \/ Login \/ Logout
    \/ GetPowerRead \/ SetPowerRead \/ SetPowerWrite \/ SetPowerPoll
    \/ GetBootList \/ SetBootMode \/ SetBootList \/ SetBootGet
    \/ SetBootWrite \/ SetBootReread
    \/ GetNetRead
    \/ GetVmediaEnabled \/ GetVmediaList \/ SetVmediaEnabled
    \/ SetVmediaEnable \/ SetVmediaList \/ SetVmediaDelete
    \/ SetVmediaCreate \/ SetVmediaReread

\* One invocation that is never left halfway: no fairness is asked of the
\* caller, nor of the endpoint carrying out a power command.
SpecLive == Init /\ [][Next]_vars /\ WF_vars(Step)

\* Two processes, each making one set_vmedias that mounts the same name.
InitConcurrent ==
    PowerDefault /\ BootDefault /\ VmediaAny /\ InvocationInit
    /\ todo = 1 /\ other = IdleContext(1) /\ ProxmoxIdle

NextConcurrent ==
    \/ SetVmediasSameName \/ Session
    \/ SetVmediaEnabled \/ SetVmediaEnable \/ SetVmediaList
    \/ SetVmediaDelete \/ SetVmediaCreate \/ SetVmediaReread
    \/ Switch

SpecConcurrent == InitConcurrent /\ [][NextConcurrent]_vars

\* One stop or delete task of the proxmox_vm module, on an instance that
\* is absent, running or stopped.
InitProxmox ==
    PowerDefault /\ BootDefault /\ VmediaDefault /\ InvocationInit
    /\ todo = 0 /\ other = NoOther
    /\ vmStatus \in {"absent", "running", "stopped"}
    /\ ProxmoxInvocationInit

NextProxmox ==
    \/ StopTask \/ DeleteTask
    \/ StopGet \/ StopPost \/ WaitPoll \/ DeleteGet \/ DeletePost
    \/ TaskRuns

SpecProxmox == InitProxmox /\ [][NextProxmox]_vars

----------------------------------------------------------------------------
(* The claims *)

Max(a, b) == IF a > b THEN a ELSE b

\* C1: in every invocation whose login succeeded, logout is submitted
\* exactly once, as the last remote call, before the invocation returns or
\* fails, whichever way the with-body was left; it is never submitted
\* while the body is still running.
C1_LogoutOnce ==
    /\ Count(calls, "logout") <= 1
    /\ (loginOk /\ pc /= "done") => Count(calls, "logout") = 0
    /\ (loginOk /\ pc = "done") =>
          /\ Count(calls, "logout") = 1
          /\ calls[Len(calls)] = "logout"
          /\ session = "none"

\* set_power has timed out polling and the invocation has ended, logged out.
C1_Witness ==
    /\ op = "set_power" /\ pc = "done" /\ loginOk
    /\ raised = "ConvergenceTimeout"
    /\ Count(calls, "poll:power") > 0
    /\ Count(calls, "logout") = 1

\* C2: when set_power(on) or set_power(off) reads a power state equal to
\* its target it submits no power command, polls nothing and leaves
\* changed false; a second set_power with the target of a first one that
\* succeeded, no earlier power command being still in flight when the
\* first began, ends with changed false.
C2_NoOpInTargetState ==
    /\ (op = "set_power" /\ args.power_state \in {"on", "off"}
        /\ current_power = args.power_state) =>
          /\ CountIn(calls, PowerWrites) = 0
          /\ Count(calls, "poll:power") = 0
          /\ ~changed
          /\ pc \in {"logout", "done"}
          /\ raised = None
    /\ (op = "set_power" /\ args.power_state \in {"on", "off"}
        /\ prev.op = "set_power" /\ prev.outcome = "ok"
        /\ prev.args = args /\ prev.pending = None
        /\ pc = "done" /\ outcome = "ok") =>
          /\ ~changed
          /\ CountIn(calls, PowerWrites) = 0

\* A second set_power with the same target, after a first that changed
\* the power state, has returned with changed false.
C2_Witness ==
    /\ op = "set_power" /\ args.power_state \in {"on", "off"}
    /\ prev.op = "set_power" /\ prev.outcome = "ok" /\ prev.changed
    /\ prev.args = args
    /\ pc = "done" /\ outcome = "ok" /\ ~changed
    /\ current_power = args.power_state

\* C3: a set_power(reboot) that read "off" behaves as a set_power(on) that
\* read "off": the command chosen and submitted is power-up, the state
\* polled for is "on", and no hard reset is submitted.
C3_RebootOfOffIsOn ==
    (op = "set_power" /\ args.power_state \in {"reboot", "on"}
     /\ current_power = "off") =>
        /\ cimc_power_ops = CIMC_POWER_OPTIONS["on"]
        /\ Count(calls, "power:hard-reset-immediate") = 0
        /\ CountIn(calls, PowerWrites) = Count(calls, "power:up")
        /\ expect_state \in {None, "on"}
        /\ (Count(calls, "poll:power") > 0 \/ pc = "sp_poll") =>
              expect_state = "on"

\* A reboot of a unit that was off has powered it up and returned.
C3_Witness ==
    /\ op = "set_power" /\ args.power_state = "reboot"
    /\ current_power = "off"
    /\ Count(calls, "power:up") = 1
    /\ pc = "done" /\ outcome = "ok" /\ changed
    /\ ret = PowerRet("on")

\* C4: once the power command is accepted, set_power reads the power
\* state at most timeout / 3 times, and when that many reads have all
\* missed the expected state the with-body raises the timeout error: the
\* invocation fails, it does not return, and changed stays false.
C4_TimeoutFails ==
    (op = "set_power" /\ expect_state /= None) =>
        /\ Count(calls, "poll:power") <= Max(timeout \div Interval, 0)
        /\ changed => left > 0
        /\ (left <= 0 /\ pc /= "sp_poll") =>
              /\ raised = "ConvergenceTimeout"
              /\ ~changed
              /\ outcome /= "ok"
              /\ pc = "done" => outcome = "error"

\* Two reads have missed the expected state and set_power has failed.
C4_Witness ==
    /\ op = "set_power" /\ timeout \div Interval = 2
    /\ Count(calls, "poll:power") = 2
    /\ left = 0
    /\ pc = "done" /\ outcome = "error" /\ err = "ConvergenceTimeout"

\* C5: a set_boot_device with valid arguments on an endpoint that is not
\* in Legacy mode submits no write of a boot object, leaves the boot
\* definition and changed as they were, and once the mode has been read
\* the with-body has raised the unsupported-operation error.
C5_PrecisionRejected ==
    (op = "set_boot_device" /\ Validate(op, args) = None
     /\ pre.bootMode /= "Legacy") =>
        /\ CountIn(calls, BootWrites) = 0
        /\ bootDefs = pre.bootDefs /\ bootMode = pre.bootMode
        /\ ~changed
        /\ outcome /= "ok"
        /\ pc \in {"login", "sb_mode", "logout", "done"}
        /\ (loginOk /\ pc \in {"logout", "done"}) =>
              raised \in {"UnsupportedOperation", "RemoteError"}
        /\ (loginOk /\ pc \in {"logout", "done"}
            /\ raised = "RemoteError") => calls[2] = "read:bios_mode"

\* set_boot_device has been rejected in Precision mode.
C5_Witness ==
    /\ op = "set_boot_device" /\ pre.bootMode = "Precision"
    /\ pc = "done" /\ outcome = "error" /\ err = "UnsupportedOperation"
    /\ calls = <<"login", "read:bios_mode", "logout">>

\* C6: in Legacy mode a set_boot_device(d, o), o in 1..5, that follows a
\* successful set_boot_device(d, o) submits no write, leaves changed false
\* and leaves the boot definition, so the entries of d, as it was.
C6_BootIdempotent ==
    (op = "set_boot_device" /\ args.order \in 1 .. 5
     /\ prev.op = "set_boot_device" /\ prev.outcome = "ok"
     /\ prev.args = args) =>
        /\ CountIn(calls, BootWrites) = 0
        /\ ~changed
        /\ bootDefs = pre.bootDefs
        /\ pc \notin {"sb_get", "sb_write", "sb_reread"}
        /\ (pc = "done" /\ outcome = "ok") =>
              ret = BootRet("list", LegacyList(pre.bootDefs))

\* The second of two equal set_boot_device calls, the first of which
\* changed the boot definition, has returned.
C6_Witness ==
    /\ op = "set_boot_device" /\ args.order \in 1 .. 5
    /\ prev.op = "set_boot_device" /\ prev.outcome = "ok" /\ prev.changed
    /\ prev.args = args
    /\ pc = "done" /\ outcome = "ok" /\ ~changed

\* C7: after a successful mount of name N, a successful unmap of N leaves
\* no mapping named N on the endpoint nor in the list the unmap returns.
C7_MountThenUnmap ==
    (op = "set_vmedias" /\ args.map = "unmap"
     /\ prev.op = "set_vmedias" /\ prev.outcome = "ok"
     /\ prev.args.map \in {"www", "nfs", "cifs"}
     /\ prev.args.name = args.name
     /\ pc = "done" /\ outcome = "ok") =>
        /\ ~(\E m \in vmaps : m.name = args.name)
        /\ ~(\E m \in ret.mappings : m.name = args.name)
        /\ ret.kind = "vmedias"

\* A mount that created the mapping, then an unmap that deleted it.
C7_Witness ==
    /\ op = "set_vmedias" /\ args.map = "unmap"
    /\ prev.op = "set_vmedias" /\ prev.outcome = "ok" /\ prev.changed
    /\ prev.args.map = "www" /\ prev.args.name = args.name
    /\ pc = "done" /\ outcome = "ok" /\ changed
    /\ Count(calls, "write:vmedia_delete") = 1

\* C8: a mount of a name that is found mounted with another remote_file
\* submits at most one delete and one create, the create after the delete,
\* and when it returns it has submitted exactly one of each and the
\* endpoint and the returned list hold exactly one mapping of that name,
\* with the new remote_file.
C8_ReplaceOnFileChange ==
    (op = "set_vmedias" /\ args.map /= "unmap" /\ found
     /\ old_mapping.file /= args.remote_file) =>
        /\ Count(calls, "write:vmedia_delete") <= 1
        /\ Count(calls, "write:vmedia_create")
              <= Count(calls, "write:vmedia_delete")
        /\ pc \notin {"sv_reread", "sv_create"} \/
              Count(calls, "write:vmedia_delete") = 1
        /\ (pc = "done" /\ outcome = "ok") =>
              /\ Count(calls, "write:vmedia_delete") = 1
              /\ Count(calls, "write:vmedia_create") = 1
              /\ Cardinality({m \in ret.mappings : m.name = args.name}) = 1
              /\ \A m \in ret.mappings :
                    m.name = args.name => m.file = args.remote_file
              /\ ret.mappings = vmaps

\* The second of two mounts of one name, with another file, has returned.
C8_Witness ==
    /\ op = "set_vmedias" /\ args.map /= "unmap" /\ found
    /\ old_mapping.file /= args.remote_file
    /\ prev.op = "set_vmedias" /\ prev.outcome = "ok"
    /\ prev.args.name = args.name /\ prev.args.map /= "unmap"
    /\ prev.args.remote_file /= args.remote_file
    /\ [prev.args EXCEPT !.remote_file = args.remote_file] = args
    /\ pc = "done" /\ outcome = "ok"

\* C9: a set_vmedias whose map kind is not an accepted one (or is missing)
\* fails with the invalid-argument error without any remote call.
C9_BadMapKind ==
    (op = "set_vmedias"
     /\ args.map \notin {"www", "nfs", "cifs", "unmap"}) =>
        /\ calls = <<>>
        /\ pc = "done" /\ outcome = "error" /\ err = "InvalidArgument"
        /\ session = "none" /\ ~loginOk /\ ~changed
        /\ vmaps = pre.vmaps /\ vmEnabled = pre.vmEnabled

\* set_vmedias(map = "ftp") has failed.
C9_Witness ==
    /\ op = "set_vmedias" /\ args.map = "ftp"
    /\ pc = "done" /\ outcome = "error" /\ err = "InvalidArgument"

C11_OneSessionAroundCalls ==
    /\ (op /= None /\ Validate(op, args) = None) =>
          /\ Count(calls, "login") = (IF pc = "login" THEN 0 ELSE 1)
          /\ calls /= <<>> => calls[1] = "login"
    /\ (op /= None /\ Validate(op, args) /= None) => calls = <<>>
    /\ \A i \in DOMAIN calls :
          calls[i] \notin {"login", "logout"} =>
             /\ loginOk
             /\ i > 1
             /\ \A j \in 1 .. i : calls[j] /= "logout"
    /\ pc \notin {"idle", "login", "logout", "done"} =>
          session = "live" /\ loginOk
    /\ session = "live" =>
          loginOk /\ Count(calls, "logout") = 0
             /\ pc \notin {"idle", "login", "done"}

\* set_power has read, written and polled inside its session and returned.
C11_Witness ==
    /\ op = "set_power" /\ pc = "done" /\ outcome = "ok" /\ changed
    /\ calls[1] = "login" /\ calls[Len(calls)] = "logout"
    /\ Count(calls, "read:power") = 1
    /\ CountIn(calls, PowerWrites) = 1
    /\ Count(calls, "poll:power") >= 1

\* C12: when login fails the invocation fails with the authentication
\* error, no read, write or poll read of the operation is submitted, and
\* no logout is submitted.
C12_LoginFailureSkipsLogout ==
    (op /= None /\ Count(calls, "login") = 1 /\ ~loginOk) =>
        /\ Count(calls, "logout") = 0
        /\ \A i \in DOMAIN calls : calls[i] = "login"
        /\ raised = "AuthenticationFailure"
        /\ pc = "done" =>
              outcome = "error" /\ err = "AuthenticationFailure"

\* C13: a failure of logout does not change the outcome of an invocation
\* whose with-body ran: a body that returned gives its result, a body that
\* raised fails the invocation with the error it raised.
C13_LogoutFailureNeverMasks ==
    (pc = "done" /\ loginOk) =>
        /\ raised = None => outcome = "ok" /\ err = None
        /\ raised /= None => outcome = "error" /\ err = raised

\* C14: _wait_util returns at the first read that gives the expected
\* value, having neither read again nor counted down (the countdown and
\* the sleep share one branch) for that read; it makes at most
\* timeout / 3 reads (none when that is not positive); and it raises the
\* timeout error exactly when timeout / 3 reads have all given another
\* value.
C14_PollStopsAtFirstMatch ==
    (op = "set_power" /\ expect_state /= None) =>
        /\ Len(observed) <= Count(calls, "poll:power")
        /\ Count(calls, "poll:power") <= Max(timeout \div Interval, 0)
        /\ \A i \in DOMAIN observed :
              observed[i] = expect_state =>
                 /\ i = Len(observed)
                 /\ Count(calls, "poll:power") = i
                 /\ left = (timeout \div Interval) - (i - 1)
                 /\ pc \in {"logout", "done"} /\ raised = None
        /\ (pc \in {"logout", "done"} /\ raised = None) =>
              /\ observed /= <<>>
              /\ observed[Len(observed)] = expect_state
        /\ raised = "ConvergenceTimeout" <=>
              /\ pc \in {"logout", "done"}
              /\ Len(observed) = Max(timeout \div Interval, 0)
              /\ \A i \in DOMAIN observed : observed[i] /= expect_state

\* The second read of the poll gave the expected value and set_power
\* returned.
C14_Witness ==
    /\ op = "set_power" /\ Len(observed) = 2
    /\ observed[1] /= expect_state /\ observed[2] = expect_state
    /\ Count(calls, "poll:power") = 2
    /\ pc = "done" /\ outcome = "ok" /\ changed

\* C15: with a timeout of 0 or less, the poll of set_power reads nothing:
\* the step after the accepted power command raises the timeout error.
C15_NoAttemptWithoutBudget ==
    (op = "set_power" /\ timeout <= 0) =>
        /\ Count(calls, "poll:power") = 0
        /\ observed = <<>>
        /\ ~changed
        /\ (expect_state /= None /\ pc /= "sp_poll") =>
              /\ raised = "ConvergenceTimeout"
              /\ pc \in {"logout", "done"}
              /\ outcome /= "ok"

\* A set_power with a negative timeout has had its command accepted and
\* has failed with the timeout error without a poll read.
C15_Witness ==
    /\ op = "set_power" /\ timeout < 0
    /\ CountIn(calls, PowerWrites) = 1
    /\ Count(calls, "poll:power") = 0
    /\ pc = "done" /\ outcome = "error" /\ err = "ConvergenceTimeout"

\* C16: the timeout error raised after timeout / 3 reads that all missed
\* carries the value the last of those reads returned.
C16_TimeoutCarriesLastObserved ==
    (op = "set_power" /\ raised = "ConvergenceTimeout"
     /\ observed /= <<>>) =>
        raised_arg = observed[Len(observed)]

\* C16 as amended: the timeout error carries the value that was waited
\* for, which none of the reads returned, and not the value the last read
\* returned.
C16_TimeoutCarriesExpected ==
    /\ (op = "set_power" /\ raised = "ConvergenceTimeout") =>
          /\ raised_arg = expect_state
          /\ \A i \in DOMAIN observed : observed[i] /= raised_arg
    /\ raised /= "ConvergenceTimeout" => raised_arg = None

\* set_power(off) has timed out after two reads that both gave "on".
C16_Witness ==
    /\ op = "set_power" /\ args.power_state = "off"
    /\ observed = <<"on", "on">>
    /\ pc = "done" /\ raised = "ConvergenceTimeout"
    /\ raised_arg = "off"

\* C17: set_boot_device fails with the invalid-argument error, before
\* login and any remote call, when the device is not one of the five
\* kinds or the order is not in 1..5; no write is submitted for such a
\* request.
C17_OrderOneToFive ==
    (op = "set_boot_device"
     /\ (args.device \notin {"CDROM", "FDD", "PXE", "EFI", "HDD"}
         \/ args.order \notin 1 .. 5)) =>
        /\ CountIn(calls, BootWrites) = 0
        /\ calls = <<>>
        /\ pc = "done" /\ outcome = "error" /\ err = "InvalidArgument"

\* C18: a set_vmedias with map = unmap and no name, or an empty one, fails
\* with the invalid-argument error before login and any remote call; an
\* unmap that submitted a remote call has a name.
C18_UnmapNeedsName ==
    /\ (op = "set_vmedias" /\ args.map = "unmap"
        /\ args.name \in {None, ""}) =>
          /\ calls = <<>>
          /\ pc = "done" /\ outcome = "error" /\ err = "InvalidArgument"
          /\ session = "none" /\ ~loginOk /\ ~changed
          /\ vmaps = pre.vmaps /\ vmEnabled = pre.vmEnabled
    /\ (op = "set_vmedias" /\ args.map = "unmap" /\ calls /= <<>>) =>
          args.name \notin {None, ""}

\* An unmap without a name has failed on an endpoint that holds a mapping.
C18_Witness ==
    /\ op = "set_vmedias" /\ args.map = "unmap" /\ args.name = None
    /\ pc = "done" /\ outcome = "error" /\ err = "InvalidArgument"
    /\ calls = <<>>
    /\ vmaps /= {}

\* C19: the mapping writes of a set_vmedias with accepted arguments follow
\* the decision table on (a mapping of the requested name was found, the
\* request is an unmap).  At any time: at most one delete and one create,
\* no create for an unmap, no delete when none was found, nothing when the
\* found mapping agrees with the request in every compared field, a create
\* over a found mapping only after its delete.  When the with-body has
\* returned: none found + unmap, nothing; found + unmap, one delete; none
\* found + mount, one create; found + mount, one delete then one create
\* if a compared field differs, nothing otherwise.
C19_DecisionTable ==
    (op = "set_vmedias"
     /\ args.map \in {"www", "nfs", "cifs", "unmap"}) =>
        LET d == Count(calls, "write:vmedia_delete")
            c == Count(calls, "write:vmedia_create")
            unmap == args.map = "unmap"
            differs == \/ old_mapping.file /= args.remote_file
                       \/ old_mapping.share /= args.remote_share
                       \/ old_mapping.user /= args.user
                       \/ old_mapping.pass /= args.password
                       \/ old_mapping.map /= args.map
                       \/ old_mapping.opts /= MountOptions(args)
            returned == pc \in {"logout", "done"} /\ raised = None
        IN  /\ d <= 1 /\ c <= 1
            /\ unmap => c = 0
            /\ ~found => d = 0
            /\ found => old_mapping \in pre.vmaps
                           /\ old_mapping.name = args.name
            /\ (found /\ ~unmap /\ ~differs) => d = 0 /\ c = 0
            /\ (found /\ c = 1) =>
                  /\ d = 1
                  /\ \E i, j \in DOMAIN calls :
                        /\ i < j
                        /\ calls[i] = "write:vmedia_delete"
                        /\ calls[j] = "write:vmedia_create"
            /\ returned =>
                  /\ found <=> \E m \in pre.vmaps : m.name = args.name
                  /\ (~found /\ unmap) => d = 0 /\ c = 0
                  /\ (found /\ unmap) => d = 1 /\ c = 0
                  /\ (~found /\ ~unmap) => d = 0 /\ c = 1
                  /\ (found /\ ~unmap /\ differs) => d = 1 /\ c = 1

\* An unmap of a name that no mapping has returned without a write, on an
\* endpoint that holds a mapping of another name.
C19_Witness ==
    /\ op = "set_vmedias" /\ args.map = "unmap" /\ ~found
    /\ vmaps /= {}
    /\ pc = "done" /\ outcome = "ok" /\ ~changed
    /\ CountIn(calls, VmediaWrites) = 0
    /\ Count(calls, "read:vmedia_maps") = 2

\* C20: set_vmedias submits a create only while the service is enabled;
\* when it found the service disabled, the enable write comes before any
\* other write of the invocation, and once that write is accepted changed
\* is true, so an invocation that returns reports it.
C20_EnableBeforeCreate ==
    (op = "set_vmedias") =>
        /\ pc = "sv_create" => vmEnabled
        /\ Count(calls, "write:vmedia_create") > 0 => vmEnabled
        /\ pre.vmEnabled => Count(calls, "write:vmedia_enable") = 0
        /\ (~pre.vmEnabled
            /\ CountIn(calls, {"write:vmedia_create",
                               "write:vmedia_delete"}) > 0) =>
              /\ Count(calls, "write:vmedia_enable") = 1
              /\ \A i \in DOMAIN calls :
                    calls[i] \in {"write:vmedia_create",
                                  "write:vmedia_delete"} =>
                       \E j \in 1 .. (i - 1) :
                           calls[j] = "write:vmedia_enable"
              /\ changed
        /\ (~pre.vmEnabled /\ vmEnabled) =>
              changed /\ Count(calls, "write:vmedia_enable") = 1
        /\ (~pre.vmEnabled /\ pc = "done" /\ outcome = "ok") =>
              changed /\ vmEnabled

\* A mount on an endpoint whose service was disabled has enabled it,
\* created the mapping and returned.
C20_Witness ==
    /\ op = "set_vmedias" /\ ~pre.vmEnabled /\ vmEnabled
    /\ args.map = "www"
    /\ Count(calls, "write:vmedia_enable") = 1
    /\ Count(calls, "write:vmedia_create") = 1
    /\ pc = "done" /\ outcome = "ok" /\ changed
    /\ \E m \in vmaps : m.name = args.name

\* C21: set_net_adaptors fails with the unsupported-operation error for
\* every config, without a session or a remote call, and leaves changed
\* false and the endpoint as it was.
C21_SetNetAdaptorsUnsupported ==
    (op = "set_net_adaptors") =>
        /\ pc = "done" /\ outcome = "error"
        /\ err = "UnsupportedOperation"
        /\ calls = <<>> /\ session = "none" /\ ~loginOk
        /\ ~changed /\ ret = NoRet
        /\ Snapshot = pre

\* set_net_adaptors with a config has failed.
C21_Witness ==
    /\ op = "set_net_adaptors" /\ pc = "done"
    /\ outcome = "error" /\ err = "UnsupportedOperation"
    /\ args /= NoArgs

\* C22: a set_power whose power_state is not "on", "off" or "reboot", or
\* is missing, fails with the invalid-argument error before login and any
\* remote call.
C22_BadPowerState ==
    (op = "set_power" /\ args.power_state \notin {"on", "off", "reboot"}) =>
        /\ pc = "done" /\ outcome = "error" /\ err = "InvalidArgument"
        /\ calls = <<>> /\ session = "none" /\ ~loginOk
        /\ ~changed
        /\ CountIn(calls, PowerWrites) = 0
        /\ pendingCmd \in {pre.pendingCmd, None, "up"}

\* set_power without a power_state has failed on a unit whose previous
\* power command is still pending.
C22_Witness ==
    /\ op = "set_power" /\ args.power_state = None
    /\ pc = "done" /\ outcome = "error" /\ err = "InvalidArgument"
    /\ pre.pendingCmd /= None

\* C23: a set invocation that returns has changed true exactly when it
\* submitted a remote write: a power command, a boot-object update or
\* create, the virtual-media enable, a mapping delete or a mapping create.
C23_ChangedIffWrite ==
    (op \in {"set_power", "set_boot_device", "set_net_adaptors",
             "set_vmedias"}
     /\ pc = "done" /\ outcome = "ok") =>
        (changed <=>
           CountIn(calls, PowerWrites \cup BootWrites \cup VmediaWrites) > 0)

\* An unmap of a name nothing has, on an endpoint whose service was
\* disabled, has returned changed after the enable write alone.
C23_Witness ==
    /\ op = "set_vmedias" /\ args.map = "unmap"
    /\ pc = "done" /\ outcome = "ok" /\ changed
    /\ CountIn(calls, VmediaWrites) = 1
    /\ Count(calls, "write:vmedia_enable") = 1

\* C24: the get operations submit no write and no poll read, leave the
\* power state, the boot configuration, the service toggle and the
\* mappings as they were, and leave changed false.
C24_GetsAreReadOnly ==
    (op \in {"get_power", "get_boot_device", "get_net_adaptors",
             "get_vmedias"}) =>
        /\ CountIn(calls, PowerWrites \cup BootWrites \cup VmediaWrites) = 0
        /\ Count(calls, "poll:power") = 0
        /\ observed = <<>>
        /\ \A i \in DOMAIN calls :
              calls[i] \in {"login", "logout", "read:power",
                            "read:bios_mode", "query:lsbootDef",
                            "read:bdgep", "read:boot_precision",
                            "read:rack_unit", "read:adaptors", "read:vnics",
                            "read:eth_profile", "read:vmedia_svc",
                            "read:vmedia_maps"}
        /\ Snapshot = pre
        /\ ~changed

\* get_vmedias has returned from an endpoint whose service is disabled.
C24_Witness ==
    /\ op = "get_vmedias" /\ ~vmEnabled
    /\ pc = "done" /\ outcome = "ok"
    /\ ret = VmediaRet(FALSE, {})
    /\ calls = <<"login", "read:vmedia_svc", "logout">>

\* C25: whenever set_power has changed true, the command it submitted is
\* no longer waiting to be carried out by the endpoint, for a request of
\* "on", of "off", and of "reboot" on a unit that was read as "on".
C25_ReturnMeansApplied ==
    (op = "set_power" /\ changed
     /\ (args.power_state \in {"on", "off"}
         \/ (args.power_state = "reboot" /\ current_power = "on"))) =>
        pendingCmd /= cimc_power_ops

\* The remote calls of the with-body, in order.
BodyCalls == SelectSeq(calls, LAMBDA c : c \notin {"login", "logout"})

\* C26: a set operation (set_power, set_boot_device, set_vmedias) that
\* submitted a write and returns with changed true has polled until a poll
\* read gave the expected state.
C26_EverySetPolls ==
    (op \in {"set_power", "set_boot_device", "set_vmedias"}
     /\ CountIn(calls, PowerWrites \cup BootWrites \cup VmediaWrites) > 0
     /\ pc = "done" /\ outcome = "ok" /\ changed) =>
        /\ Count(calls, "poll:power") > 0
        /\ observed /= <<>>

\* C26 as amended: set_power never has changed true without a poll read
\* that gave the expected state, made after its power command;
\* set_boot_device and set_vmedias never poll, and one that returns after
\* a write has read the configuration once more after its last write.
C26_OnlyPowerPolls ==
    /\ (op = "set_power" /\ changed) =>
          /\ CountIn(calls, PowerWrites) = 1
          /\ observed /= <<>>
          /\ observed[Len(observed)] =
                (IF args.power_state = "reboot" THEN "on"
                 ELSE args.power_state)
          /\ BodyCalls[Len(BodyCalls)] = "poll:power"
          /\ BodyCalls[2] \in PowerWrites
    /\ (op \in {"set_boot_device", "set_vmedias"}) =>
          /\ Count(calls, "poll:power") = 0
          /\ observed = <<>>
    /\ (op = "set_boot_device" /\ pc = "done" /\ outcome = "ok"
        /\ changed) =>
          /\ CountIn(calls, BootWrites) = 1
          /\ \E i \in DOMAIN BodyCalls :
                /\ BodyCalls[i] \in BootWrites
                /\ SubSeq(BodyCalls, i + 1, Len(BodyCalls))
                      = <<"read:bios_mode", "query:lsbootDef">>
    /\ (op = "set_vmedias" /\ pc = "done" /\ outcome = "ok") =>
          /\ BodyCalls[Len(BodyCalls)] = "read:vmedia_maps"
          /\ BodyCalls[Len(BodyCalls) - 1] /= "read:vmedia_maps"
                \/ CountIn(calls, {"write:vmedia_delete",
                                   "write:vmedia_create"}) = 0

\* set_boot_device has written a boot object, read the list again and
\* returned with changed true, without a poll read.
C26_Witness ==
    /\ op = "set_boot_device" /\ pc = "done" /\ outcome = "ok" /\ changed
    /\ CountIn(calls, BootWrites) = 1
    /\ Count(calls, "poll:power") = 0
    /\ \E i \in DOMAIN ret.list :
          ret.list[i].device = args.device /\ ret.list[i].order = args.order

\* C27: a mapping delete that the endpoint answers with a non-zero error
\* code makes the with-body of set_vmedias raise an error carrying the
\* description of the answer; a delete that was submitted and not carried
\* out is the last remote call of the body, so no create follows it, it
\* does not set changed, and the mappings stay as they were.
C27_DeleteRefused ==
    /\ (op = "set_vmedias" /\ Count(calls, "write:vmedia_delete") = 1
        /\ Count(calls, "write:vmedia_create") = 0
        /\ old_mapping \in vmaps) =>
          /\ raised \in {"RemoteOperationFailed", "RemoteError"}
          /\ pc \in {"logout", "done"}
          /\ BodyCalls[Len(BodyCalls)] = "write:vmedia_delete"
          /\ changed <=> Count(calls, "write:vmedia_enable") > 0
          /\ vmaps = pre.vmaps
          /\ pc = "done" => outcome = "error"
    /\ (op = "set_vmedias" /\ raised = "RemoteOperationFailed") =>
          /\ raised_arg = ErrorDescr
          /\ Count(calls, "write:vmedia_delete") = 1
          /\ Count(calls, "write:vmedia_create") = 0
          /\ old_mapping \in vmaps

\* A mount that found its name mounted with other content had its delete
\* refused and has failed.
C27_Witness ==
    /\ op = "set_vmedias" /\ args.map /= "unmap" /\ found /\ need_update
    /\ raised = "RemoteOperationFailed" /\ raised_arg = ErrorDescr
    /\ pc = "done" /\ outcome = "error" /\ err = "RemoteOperationFailed"
    /\ old_mapping \in vmaps /\ ~changed

\* C28: a mount that replaces a mapping found with other content submits
\* the delete first and the create only once the mapping is gone from the
\* endpoint; its writes are deletes and creates only; and when the create
\* fails after the delete, it is the last remote call of the body, the
\* mapping stays absent, changed is true and the invocation fails.
C28_ReplaceThroughAbsent ==
    (op = "set_vmedias" /\ args.map /= "unmap" /\ found /\ need_update) =>
        /\ ~collision
        /\ Count(calls, "write:vmedia_delete") <= 1
        /\ Count(calls, "write:vmedia_create")
              <= Count(calls, "write:vmedia_delete")
        /\ \A i \in DOMAIN BodyCalls :
              BodyCalls[i] \in {"read:vmedia_svc", "read:vmedia_maps",
                                "write:vmedia_enable", "write:vmedia_delete",
                                "write:vmedia_create"}
        /\ pc = "sv_create" =>
              /\ Count(calls, "write:vmedia_delete") = 1
              /\ ~(\E m \in vmaps : m.name = args.name)
              /\ changed
        /\ (Count(calls, "write:vmedia_create") = 1 /\ raised /= None
            /\ BodyCalls[Len(BodyCalls)] = "write:vmedia_create") =>
              /\ ~(\E m \in vmaps : m.name = args.name)
              /\ vmaps = pre.vmaps \ {old_mapping}
              /\ changed
              /\ pc \in {"logout", "done"}
              /\ pc = "done" => outcome = "error"

\* The create of a replacement has failed after the delete of the old
\* mapping, and the invocation has failed with the mapping absent.
C28_Witness ==
    /\ op = "set_vmedias" /\ args.map /= "unmap" /\ found /\ need_update
    /\ Count(calls, "write:vmedia_delete") = 1
    /\ Count(calls, "write:vmedia_create") = 1
    /\ BodyCalls[Len(BodyCalls)] = "write:vmedia_create"
    /\ raised = "RemoteError"
    /\ pc = "done" /\ outcome = "error" /\ changed
    /\ ~(\E m \in vmaps : m.name = args.name)

\* C29: in Legacy mode a set_boot_device(d, o) submits at most one write,
\* an update when the endpoint held the object of d and a create when it
\* did not, and nothing but reads besides; one that returns wrote exactly
\* once unless (d, o) was already listed; the endpoint never holds two
\* objects of one device kind; and the list a set_boot_device(d, o)
\* returns has exactly one entry for d, with order o.
C29_OneWriteInPlace ==
    /\ \A i, j \in DOMAIN bootDefs :
          bootDefs[i].rn = bootDefs[j].rn => i = j
    /\ (op = "set_boot_device" /\ pre.bootMode = "Legacy") =>
          LET had == \E i \in DOMAIN pre.bootDefs :
                        pre.bootDefs[i].rn
                           = BOOT_DEVICES_CIMC_ATTRS[args.device]
              returned == pc = "done" /\ outcome = "ok"
          IN  /\ CountIn(calls, BootWrites) <= 1
              /\ Count(calls, "write:boot_update") = 1 => had
              /\ Count(calls, "write:boot_create") = 1 => ~had
              /\ \A i \in DOMAIN BodyCalls :
                    BodyCalls[i] \in BootWrites
                       \cup {"read:bios_mode", "query:lsbootDef",
                             "read:boot_object"}
              /\ (returned /\ changed) => CountIn(calls, BootWrites) = 1
              /\ (returned /\ ~changed) =>
                    /\ CountIn(calls, BootWrites) = 0
                    /\ bootDefs = pre.bootDefs
              /\ returned =>
                    /\ Cardinality({i \in DOMAIN ret.list :
                                       ret.list[i].device = args.device}) = 1
                    /\ \A i \in DOMAIN ret.list :
                          ret.list[i].device = args.device =>
                             ret.list[i].order = args.order

\* The children of a legacy boot definition that are to be listed: those
\* with one of the five legacy names and an integer order above 0.
Listed(defs) ==
    {i \in DOMAIN defs :
        /\ defs[i].rn \in {"vm-read-only", "vm-read-write", "lan-read-only",
                            "storage-read-write", "efi-read-only"}
        /\ defs[i].valid
        /\ defs[i].ord > 0}

\* The k-th of them in response order.
NthListed(defs, k) ==
    CHOOSE i \in Listed(defs) :
        Cardinality({j \in Listed(defs) : j < i}) = k - 1

\* C30: in Legacy mode the boot list that get_boot_device (and the
\* re-read of set_boot_device) returns has one entry {device, order} for
\* each child with a legacy name and an integer order above 0, in
\* response order, and none for any other child; such children do not
\* make the read fail.
C30_LegacyListing ==
    (op \in {"get_boot_device", "set_boot_device"}
     /\ bootMode = "Legacy"
     /\ ret.kind \in {"boot_device", "list"}) =>
        /\ pc \in {"logout", "done"} /\ raised = None
        /\ Len(ret.list) = Cardinality(Listed(bootDefs))
        /\ \A k \in DOMAIN ret.list :
              LET c == bootDefs[NthListed(bootDefs, k)]
              IN  ret.list[k] =
                    [order |-> c.ord,
                     device |-> CIMC_BOOT_DEVICES_MAPPING[c.rn]]

\* get_boot_device has returned a list from a definition that a
\* set_boot_device changed and that holds a child of unknown name, one
\* without a usable order and one with order 0.
C30_Witness ==
    /\ op = "get_boot_device" /\ bootMode = "Legacy"
    /\ prev.op = "set_boot_device" /\ prev.changed
    /\ pc = "done" /\ outcome = "ok"
    /\ \E i \in DOMAIN bootDefs : ~bootDefs[i].valid
    /\ \E i \in DOMAIN bootDefs :
          bootDefs[i].valid /\ bootDefs[i].ord = 0
    /\ \E i \in DOMAIN bootDefs : bootDefs[i].rn = "usb-read-write"
    /\ Len(ret.list) = 3
    /\ Len(ret.list) < Len(bootDefs)

\* C31: a set_vmedias with map = unmap that finds the virtual-media service
\* disabled submits no enable write, leaves the service disabled and, when
\* it returns, reports changed false.
C31_UnmapLeavesServiceDisabled ==
    (op = "set_vmedias" /\ args.map = "unmap"
     /\ Validate(op, args) = None /\ ~pre.vmEnabled) =>
        /\ Count(calls, "write:vmedia_enable") = 0
        /\ ~vmEnabled
        /\ (pc = "done" /\ outcome = "ok") => ~changed

\* C32: a mount that follows a successful mount with the identical config
\* submits no delete and no create and, when it returns, reports changed
\* false, whether or not the config carries a user, a password or its own
\* mount options.
C32_MountIdempotent ==
    (op = "set_vmedias" /\ args.map \in {"www", "nfs", "cifs"}
     /\ prev.op = "set_vmedias" /\ prev.outcome = "ok"
     /\ prev.args = args) =>
        /\ Count(calls, "write:vmedia_delete") = 0
        /\ Count(calls, "write:vmedia_create") = 0
        /\ (pc = "done" /\ outcome = "ok") => ~changed

\* C33: a mount request that lacks a name, a remote file or a remote share
\* fails with the invalid-argument error before any login or remote call,
\* and no mapping without a name, a file or a share is ever created.
C33_MountNeedsNameFileShare ==
    (op = "set_vmedias" /\ args.map \in {"www", "nfs", "cifs"}
     /\ (~Truthy(args.name) \/ ~Truthy(args.remote_file)
         \/ ~Truthy(args.remote_share))) =>
        /\ calls = <<>>
        /\ pc = "done" /\ outcome = "error" /\ err = "InvalidArgument"
        /\ vmaps = pre.vmaps

\* C34: a set_power that returns carries the result {power_state: s} in
\* which s is the power state last read from the unit in the call: the
\* polled one on the changed path, the one first read on the
\* already-in-state path.
C34_SetPowerReturnsState ==
    (op = "set_power" /\ pc = "done" /\ outcome = "ok") =>
        /\ ret.kind = "power"
        /\ ret.power_state = (IF observed = <<>> THEN current_power
                              ELSE observed[Len(observed)])

\* The children of a boot definition other than the object rn, in order.
OtherEntries(defs, rn) == SelectSeq(defs, LAMBDA e : e.rn /= rn)

\* C37: at every step of a set_boot_device(d, o) the boot objects of the
\* device kinds other than d, their existence, order and position, are the
\* ones the endpoint had when the call began, and so is the boot mode.
C37_OtherDevicesUntouched ==
    (op = "set_boot_device") =>
        LET rn == IF args.device \in DOMAIN BOOT_DEVICES_CIMC_ATTRS
                  THEN BOOT_DEVICES_CIMC_ATTRS[args.device] ELSE None
        IN  /\ OtherEntries(bootDefs, rn) = OtherEntries(pre.bootDefs, rn)
            /\ bootMode = pre.bootMode

\* A set_boot_device has given its device the order another device holds
\* and has returned.
C37_Witness ==
    /\ op = "set_boot_device" /\ pc = "done" /\ outcome = "ok" /\ changed
    /\ bootDefs /= pre.bootDefs
    /\ \E i \in DOMAIN pre.bootDefs :
          /\ pre.bootDefs[i].rn /= BOOT_DEVICES_CIMC_ATTRS[args.device]
          /\ pre.bootDefs[i].ord = args.order
          /\ args.order > 0

\* C35: an invocation that has begun ends; in the poll loop the attempts
\* made and the attempts left add up to timeout / 3 rounded down, and the
\* loop goes round only while attempts are left, each read that sends it
\* round taking one.
C35_InvocationTerminates ==
    /\ [](pc = "sp_poll" =>
            left + Len(observed) = timeout \div Interval)
    /\ [][(pc = "sp_poll" /\ pc' = "sp_poll" /\ calls' /= calls) =>
            (left > 0 /\ left' = left - 1)]_vars
    /\ (pc \notin {"idle", "done"}) ~> (pc = "done")

\* A set_power on a unit that never showed the expected state has used all
\* its attempts and ended with the timeout.
C35_Witness ==
    /\ op = "set_power" /\ pc = "done" /\ err = "ConvergenceTimeout"
    /\ left = 0 /\ Len(observed) = MaxAttempts
    /\ \A i \in DOMAIN observed : observed[i] /= expect_state

\* C36: of two set_vmedias invocations that mount one name
\* against one endpoint, interleaved between remote calls, at most one
\* submits a create; no create is submitted while the endpoint holds a
\* mapping of the name, and the endpoint never holds two of them.
C36_NoDoubleCreate ==
    /\ ~(/\ Count(calls, "write:vmedia_create") > 0
         /\ Count(other.calls, "write:vmedia_create") > 0)
    /\ ~collision /\ ~other.collision
    /\ \A m1, m2 \in vmaps : m1.name = m2.name => m1 = m2

\* An invocation submitted at most one delete and one create, and a create
\* only when its own read of the mappings found none of the name, or found
\* one that differs and its own delete went before.
DecidedAlone(c) ==
    (c.op = "set_vmedias") =>
        /\ Count(c.calls, "write:vmedia_create") <= 1
        /\ Count(c.calls, "write:vmedia_delete") <= 1
        /\ Count(c.calls, "write:vmedia_create") = 1 =>
              \/ ~c.found
              \/ /\ c.need_update
                 /\ Count(c.calls, "write:vmedia_delete") = 1

\* C36 as amended: each of the two invocations decides from its own read of
\* the mappings alone, so both may submit a create; an endpoint that
\* refuses a create at a Dn it holds, the Dn being made of the name, never
\* holds two mappings of the name.
C36_EachDecidesAlone ==
    /\ DecidedAlone(Context) /\ DecidedAlone(other)
    /\ \A m1, m2 \in vmaps : m1.name = m2.name => m1 = m2

\* Both invocations read the mappings before either created one, both
\* submitted a create, the later one for a name the endpoint then held,
\* and both have ended.
C36_Witness ==
    /\ op = "set_vmedias" /\ other.op = "set_vmedias"
    /\ pc = "done" /\ other.pc = "done"
    /\ ~found /\ ~other.found
    /\ Count(calls, "write:vmedia_create") = 1
    /\ Count(other.calls, "write:vmedia_create") = 1
    /\ collision \/ other.collision

\* C38: _wait_until_timeout ends by returning a pair, whatever the timeout:
\* it never ends with an exception of its own, a pair that reports failure
\* carries the last line of the task log, and it reads the task status at
\* most timeout times (never, for a timeout of 0 or below).
C38_WaitReturnsPair ==
    /\ praised /= "UnboundLocalError"
    /\ polls <= Max(task_timeout, 0)
    /\ (wait_ret.returned /\ ~wait_ret.success) => wait_ret.log = LastLog

\* C39: delete_instance submits the delete only for an instance that is
\* stopped, and after a stop of its own only when that stop succeeded;
\* without force an instance that is not stopped is rejected with no
\* delete submitted; an absent instance gives success, unchanged, with no
\* request submitted.
C39_DeleteOnlyStopped ==
    (task = "delete") =>
        /\ Count(pcalls, "delete") > 0 =>
              /\ del_on = "stopped"
              /\ stop_ret.returned => stop_ret.rc
        /\ (~force /\ vmStatus = "running" /\ ppc = "done"
            /\ praised = None) =>
              /\ Count(pcalls, "delete") = 0
              /\ pret = Result(FALSE, FALSE, "not stopped")
        /\ (pcalls = <<"get:resources">> /\ vmStatus = "absent"
            /\ ppc = "done" /\ praised = None) =>
              pret = Result(TRUE, FALSE, "already absent")

====
